---- MODULE Spec2Model ----
(***************************************************************************)
(* Choukai: a grid Map (terrain cells with a single occupant), and a World *)
(* that keeps named Maps and the tracked position of every entity.         *)
(*                                                                         *)
(* Map objects live in a heap and are shared by reference: the World holds *)
(* references, and a Map taken out of the World keeps its cells.           *)
(* Optional values (a missing z, a cell without occupiedBy, a lookup that  *)
(* finds nothing) are sequences of length 0 or 1.                          *)
(***************************************************************************)
EXTENDS Integers, Sequences, FiniteSets, TLC

VARIABLES
  heap,           \* Map reference -> Map object (width, height, name, config, cells)
  maps,           \* World.maps: the sequence of Map references in the world
  unitPositions,  \* World.unitPositions: entity id -> [mapId, position]
  variant,        \* which of the two World sources is running
  zInputs,        \* the z-coordinates the caller hands to setUnitPosition
  shared,         \* cell positions at which a map and its clone hold one cell object
  calls,          \* how many calls were made
  last            \* the last call: its name, its result, the return it took

vars == <<heap, maps, unitPositions, variant, zInputs, shared, calls, last>>

(* ------------------------------ bounds --------------------------------- *)

\* A behaviour makes at most MaxCalls calls.
MaxCalls == 5

\* Coordinates handed to the operations: one column left of every map up to
\* one column right of the widest, and one row below the highest.
Coords == {-1, 0, 1, 2}

YCoords == {0, 1}

\* Entity identifiers are opaque strings; the empty string is one of them.
UnitIds == {"", "u1"}

\* The Map objects of the heap: two of them carry the same name.
MapRefs == {"o1", "o2", "o3"}

\* Names used in lookups; no Map object is named "C".
MapNames == {"A", "B", "C"}

None == <<>>

Some(v) == <<v>>

\* A position handed to the World has no z or z = 1.
ZValues == {None, Some(1)}

(* ------------------------------ strings -------------------------------- *)

\* A JavaScript string is a sequence of one-character strings.
DigitChars == <<"0", "1", "2", "3", "4", "5", "6", "7", "8", "9">>

IsDigit(ch) == \E i \in DOMAIN DigitChars : DigitChars[i] = ch

DigitValue(ch) == (CHOOSE i \in DOMAIN DigitChars : DigitChars[i] = ch) - 1

RECURSIVE Digits(_)
Digits(n) == IF n < 10 THEN <<DigitChars[n + 1]>>
             ELSE Digits(n \div 10) \o <<DigitChars[(n % 10) + 1]>>

\* `${n}` for an integer n.
NumberToString(n) == IF n < 0 THEN <<"-">> \o Digits(-n) ELSE Digits(n)

\* The value of a run of digits read after the value acc.
RECURSIVE DigitsValue(_, _)
DigitsValue(str, acc) ==
  IF str = <<>> THEN acc ELSE DigitsValue(Tail(str), 10 * acc + DigitValue(Head(str)))

\* The longest prefix of str made of digits.
RECURSIVE DigitPrefix(_)
DigitPrefix(str) ==
  IF str = <<>> \/ ~IsDigit(Head(str)) THEN <<>> ELSE <<Head(str)>> \o DigitPrefix(Tail(str))

RECURSIVE TrimStart(_)
TrimStart(str) == IF str # <<>> /\ Head(str) = " " THEN TrimStart(Tail(str)) ELSE str

RECURSIVE TrimEnd(_)
TrimEnd(str) ==
  IF str # <<>> /\ str[Len(str)] = " " THEN TrimEnd(SubSeq(str, 1, Len(str) - 1)) ELSE str

\* String.prototype.trim
Trim(str) == TrimEnd(TrimStart(str))

\* A number read from a string is Some(n), or None for NaN.
\* parseFloat(str), for the integers: leading blanks, a sign, then the
\* longest run of digits; NaN when there is no digit. What follows the
\* digits is not read.
parseFloat(str) ==
  LET s == TrimStart(str)
      signed == s # <<>> /\ Head(s) \in {"-", "+"}
      body == DigitPrefix(IF signed THEN Tail(s) ELSE s)
  IN IF body = <<>> THEN None
     ELSE IF signed /\ Head(s) = "-" THEN Some(-DigitsValue(body, 0))
     ELSE Some(DigitsValue(body, 0))

\* Number(str), for the integers: the whole trimmed string must be a
\* number, and the empty string is 0.
Number(str) ==
  LET s == Trim(str)
      signed == s # <<>> /\ Head(s) \in {"-", "+"}
      body == IF signed THEN Tail(s) ELSE s
  IN IF s = <<>> THEN Some(0)
     ELSE IF body = <<>> \/ DigitPrefix(body) # body THEN None
     ELSE IF Head(s) = "-" THEN Some(-DigitsValue(body, 0)) ELSE Some(DigitsValue(body, 0))

\* str.split(sep) for a one-character separator.
RECURSIVE Split(_, _)
Split(str, sep) ==
  IF \A i \in DOMAIN str : str[i] # sep THEN <<str>>
  ELSE LET i == CHOOSE k \in DOMAIN str :
                  str[k] = sep /\ \A j \in 1 .. k - 1 : str[j] # sep
       IN <<SubSeq(str, 1, i - 1)>> \o Split(SubSeq(str, i + 1, Len(str)), sep)

\* str.replace(/[()]/g, '')
RECURSIVE StripParens(_)
StripParens(str) ==
  IF str = <<>> THEN <<>>
  ELSE IF Head(str) \in {"(", ")"} THEN StripParens(Tail(str))
  ELSE <<Head(str)>> \o StripParens(Tail(str))

(* ------------------------------ Position ------------------------------- *)

\* new Position(x, y, z): z is kept only when it is not undefined.
Position(x, y, z) == [x |-> x, y |-> y, z |-> z]

Abs(n) == IF n < 0 THEN -n ELSE n

\* Position.distanceTo: Math.sqrt(dx*dx + dy*dy + dz*dz), carried as the
\* number under the root; dz counts only when both positions have a z.
distanceTo(this, other) ==
  LET dx == this.x - other.x
      dy == this.y - other.y
      dz == IF this.z # None /\ other.z # None THEN this.z[1] - other.z[1] ELSE 0
  IN [sqrtOf |-> dx * dx + dy * dy + dz * dz]

\* A faulty isAdjacentTo that counts a position as its own neighbour.
isAdjacentToOrSame(this, other, allowDiagonal) ==
  LET dx == Abs(this.x - other.x)
      dy == Abs(this.y - other.y)
  IN IF allowDiagonal THEN dx <= 1 /\ dy <= 1 ELSE dx + dy <= 1

isAdjacentTo(this, other, allowDiagonal) ==
  LET dx == Abs(this.x - other.x)
      dy == Abs(this.y - other.y)
  IN IF allowDiagonal THEN dx <= 1 /\ dy <= 1 /\ dx + dy > 0
     ELSE (dx = 1 /\ dy = 0) \/ (dx = 0 /\ dy = 1)

\* A faulty toString that leaves z out.
toStringFlat(this) ==
  <<"(">> \o NumberToString(this.x) \o <<",", " ">> \o NumberToString(this.y) \o <<")">>

\* Position.toString: "(x, y)" or "(x, y, z)".
toString(this) ==
  IF this.z # None
  THEN <<"(">> \o NumberToString(this.x) \o <<",", " ">> \o NumberToString(this.y)
         \o <<",", " ">> \o NumberToString(this.z[1]) \o <<")">>
  ELSE <<"(">> \o NumberToString(this.x) \o <<",", " ">> \o NumberToString(this.y) \o <<")">>

\* Position.fromString: [raised, nan, position]; nan says that a coordinate
\* is NaN, and then there is no position to speak of: it equals nothing.
fromString(positionStr) ==
  LET pieces == Split(StripParens(positionStr), ",")
      coords == [i \in DOMAIN pieces |-> parseFloat(Trim(pieces[i]))]
      nan == \E i \in DOMAIN coords : coords[i] = None
  IN IF Len(coords) \notin {2, 3} THEN [raised |-> TRUE, nan |-> FALSE]
     ELSE IF nan THEN [raised |-> FALSE, nan |-> TRUE]
     ELSE [raised |-> FALSE, nan |-> FALSE,
           position |-> Position(coords[1][1], coords[2][1],
                                 IF Len(coords) = 3 THEN Some(coords[3][1]) ELSE None)]

\* Position.equals: x, y and z are === (two undefined z are).
equals(this, other) == this.x = other.x /\ this.y = other.y /\ this.z = other.z

(* -------------------------------- Map ---------------------------------- *)

\* JavaScript's % : the result takes the sign of the dividend.
JsRem(a, b) == IF a >= 0 THEN a % b ELSE -((-a) % b)

\* A JavaScript string used as a condition: undefined and "" are falsy.
Truthy(opt) == opt # None /\ opt[1] # ""

createDefaultCell(config) ==
  [terrain |-> IF config.defaultTerrain # "" THEN config.defaultTerrain ELSE "grass",
   properties |-> [movementCost |-> IF config.defaultMovementCost # 0
                                    THEN config.defaultMovementCost ELSE 10,
                   movementBlocked |-> FALSE],
   occupiedBy |-> None]

initializeCells(width, height, config) ==
  [y \in 0 .. height - 1 |-> [x \in 0 .. width - 1 |-> createDefaultCell(config)]]

\* new Map(width, height, name, config); movement costs are in tenths.
NewMap(width, height, name, wrapEdges) ==
  LET config == [wrapEdges |-> wrapEdges, defaultTerrain |-> "grass",
                 defaultMovementCost |-> 10]
  IN [width |-> width, height |-> height, name |-> name, config |-> config,
      cells |-> initializeCells(width, height, config)]

isValidCoordinate(m, x, y) ==
  IF m.config.wrapEdges THEN TRUE
  ELSE x >= 0 /\ x < m.width /\ y >= 0 /\ y < m.height

\* A faulty getWrappedCoordinate that takes the remainder once.
getWrappedCoordinateOnce(m, coord, max) ==
  IF m.config.wrapEdges THEN JsRem(coord, max) ELSE coord

getWrappedCoordinate(m, coord, max) ==
  IF m.config.wrapEdges THEN JsRem(JsRem(coord, max) + max, max) ELSE coord

\* this.cells[y]?.[x] : the cell, or nothing when a row or column is missing.
cellAt(m, x, y) ==
  IF y \in DOMAIN m.cells /\ x \in DOMAIN m.cells[y] THEN Some(m.cells[y][x]) ELSE None

getCell(m, x, y) ==
  IF ~isValidCoordinate(m, x, y) THEN None
  ELSE cellAt(m, getWrappedCoordinate(m, x, m.width),
                 getWrappedCoordinate(m, y, m.height))

\* A faulty table of defaults in which water costs what grass costs.
getDefaultTerrainPropertiesFlat(terrainType) ==
  IF terrainType = "water" THEN [movementCost |-> 10, movementBlocked |-> TRUE]
  ELSE [movementCost |-> 10, movementBlocked |-> FALSE]

\* Movement costs and visibility modifiers in tenths; water blocks movement,
\* and a movementBlocked that is left out reads as false. A kind outside
\* the table gets the defaults of grass.
getDefaultTerrainProperties(terrainType) ==
  CASE terrainType = "grass" -> [movementCost |-> 10, movementBlocked |-> FALSE]
    [] terrainType = "water" -> [movementCost |-> 20, movementBlocked |-> TRUE]
    [] terrainType = "mountain" -> [movementCost |-> 30, movementBlocked |-> FALSE]
    [] terrainType = "forest" -> [movementCost |-> 15, movementBlocked |-> FALSE,
                                  visibilityModifier |-> 7]
    [] terrainType = "desert" -> [movementCost |-> 12, movementBlocked |-> FALSE]
    [] terrainType = "road" -> [movementCost |-> 8, movementBlocked |-> FALSE]
    [] terrainType = "plains" -> [movementCost |-> 10, movementBlocked |-> FALSE]
    [] terrainType = "swamp" -> [movementCost |-> 25, movementBlocked |-> FALSE]
    [] terrainType = "snow" -> [movementCost |-> 13, movementBlocked |-> FALSE]
    [] terrainType = "sand" -> [movementCost |-> 14, movementBlocked |-> FALSE]
    [] OTHER -> [movementCost |-> 10, movementBlocked |-> FALSE]

\* Map.setTerrain without a properties override: [ok, map].
setTerrain(m, x, y, terrain) ==
  IF ~isValidCoordinate(m, x, y) THEN [ok |-> FALSE, map |-> m]
  ELSE LET wx == getWrappedCoordinate(m, x, m.width)
           wy == getWrappedCoordinate(m, y, m.height)
       IN IF cellAt(m, wx, wy) # None
          THEN [ok |-> TRUE,
                map |-> [m EXCEPT !.cells[wy][wx] =
                           [@ EXCEPT !.terrain = terrain,
                                     !.properties = getDefaultTerrainProperties(terrain)]]]
          ELSE [ok |-> FALSE, map |-> m]

\* Object.assign(target, source): the fields of source overwrite or extend target.
ObjectAssign(target, source) ==
  [k \in DOMAIN target \cup DOMAIN source |->
     IF k \in DOMAIN source THEN source[k] ELSE target[k]]

\* A faulty setTerrain that builds the cell anew, without its occupant.
setTerrainFreshCell(m, x, y, terrain, properties) ==
  IF ~isValidCoordinate(m, x, y) THEN [ok |-> FALSE, map |-> m]
  ELSE LET wx == getWrappedCoordinate(m, x, m.width)
           wy == getWrappedCoordinate(m, y, m.height)
       IN IF cellAt(m, wx, wy) # None
          THEN [ok |-> TRUE,
                map |-> [m EXCEPT !.cells[wy][wx] =
                           [terrain |-> terrain,
                            properties |-> getDefaultTerrainProperties(terrain),
                            occupiedBy |-> None]]]
          ELSE [ok |-> FALSE, map |-> m]

\* Map.setTerrain with the optional properties argument: [ok, map].
setTerrainWith(m, x, y, terrain, properties) ==
  IF ~isValidCoordinate(m, x, y) THEN [ok |-> FALSE, map |-> m]
  ELSE LET wx == getWrappedCoordinate(m, x, m.width)
           wy == getWrappedCoordinate(m, y, m.height)
           defaults == getDefaultTerrainProperties(terrain)
           terrainProps == IF properties # None THEN ObjectAssign(defaults, properties[1])
                           ELSE defaults
       IN IF cellAt(m, wx, wy) # None
          THEN [ok |-> TRUE,
                map |-> [m EXCEPT !.cells[wy][wx] =
                           [@ EXCEPT !.terrain = terrain, !.properties = terrainProps]]]
          ELSE [ok |-> FALSE, map |-> m]

\* Map.getTerrainProperties: the properties of the cell, or null.
getTerrainProperties(m, x, y) ==
  LET cell == getCell(m, x, y)
  IN IF cell # None THEN Some(cell[1].properties) ELSE None

\* Map.getMovementCost, in tenths: props.movementCost || 1.0, and Infinity
\* (no value here) where there is no cell.
getMovementCost(m, x, y) ==
  LET props == getTerrainProperties(m, x, y)
  IN IF props = None THEN None
     ELSE IF props[1].movementCost # 0 THEN Some(props[1].movementCost)
     ELSE Some(10)

isWalkable(m, x, y) ==
  LET cell == getCell(m, x, y)
  IN IF cell = None THEN FALSE
     ELSE IF cell[1].properties.movementBlocked THEN FALSE
     ELSE IF Truthy(cell[1].occupiedBy) THEN FALSE
     ELSE TRUE

\* Which return of canPlaceUnitAt the coordinate takes.
placeability(m, x, y) ==
  LET cell == getCell(m, x, y)
  IN IF cell = None THEN "noCell"
     ELSE IF cell[1].properties.movementBlocked THEN "blocked"
     ELSE IF Truthy(cell[1].occupiedBy) THEN "occupied"
     ELSE "free"

\* A faulty canPlaceUnitAt that does not look at the terrain.
canPlaceUnitAtAnyTerrain(m, x, y) ==
  LET cell == getCell(m, x, y)
  IN IF cell = None THEN FALSE
     ELSE IF Truthy(cell[1].occupiedBy) THEN FALSE
     ELSE TRUE

canPlaceUnitAt(m, x, y) ==
  LET cell == getCell(m, x, y)
  IN IF cell = None THEN FALSE
     ELSE IF cell[1].properties.movementBlocked THEN FALSE
     ELSE IF Truthy(cell[1].occupiedBy) THEN FALSE
     ELSE TRUE

\* Map.placeUnit: [ok, map].
placeUnit(m, unitId, x, y) ==
  IF ~canPlaceUnitAt(m, x, y) THEN [ok |-> FALSE, map |-> m]
  ELSE LET wx == getWrappedCoordinate(m, x, m.width)
           wy == getWrappedCoordinate(m, y, m.height)
       IN IF cellAt(m, wx, wy) = None THEN [ok |-> FALSE, map |-> m]
          ELSE [ok |-> TRUE, map |-> [m EXCEPT !.cells[wy][wx].occupiedBy = Some(unitId)]]

\* A faulty Map.removeUnit that refuses a cell without occupant.
mapRemoveUnitStrict(m, x, y) ==
  IF getCell(m, x, y) = None \/ getCell(m, x, y)[1].occupiedBy = None
  THEN [ok |-> FALSE, map |-> m]
  ELSE LET wx == getWrappedCoordinate(m, x, m.width)
           wy == getWrappedCoordinate(m, y, m.height)
       IN [ok |-> TRUE, map |-> [m EXCEPT !.cells[wy][wx].occupiedBy = None]]

\* Map.removeUnit: [ok, map].
mapRemoveUnit(m, x, y) ==
  IF getCell(m, x, y) = None THEN [ok |-> FALSE, map |-> m]
  ELSE LET wx == getWrappedCoordinate(m, x, m.width)
           wy == getWrappedCoordinate(m, y, m.height)
       IN [ok |-> TRUE, map |-> [m EXCEPT !.cells[wy][wx].occupiedBy = None]]

getUnitAt(m, x, y) ==
  LET cell == getCell(m, x, y) IN IF cell = None THEN None ELSE cell[1].occupiedBy

\* The loops of getNearbyCells from the k-th offset on: dy is the outer
\* loop and dx the inner one, both from -range to range.
RECURSIVE nearbyLoop(_, _, _, _, _, _, _)
nearbyLoop(m, x, y, range, includeDiagonals, k, cells) ==
  LET side == 2 * range + 1
      dy == (k \div side) - range
      dx == (k % side) - range
      cell == getCell(m, x + dx, y + dy)
  IN IF range < 0 \/ k >= side * side THEN cells
     ELSE nearbyLoop(m, x, y, range, includeDiagonals, k + 1,
            IF dx = 0 /\ dy = 0 THEN cells
            ELSE IF ~includeDiagonals /\ Abs(dx) = Abs(dy) THEN cells
            ELSE IF cell # None
                 THEN Append(cells, [x |-> x + dx, y |-> y + dy, cell |-> cell[1]])
            ELSE cells)

\* A faulty getNearbyCells that returns the diagonals whatever it is told.
getNearbyCellsWithDiagonals(m, x, y, range, includeDiagonals) ==
  nearbyLoop(m, x, y, range, TRUE, 0, <<>>)

\* Map.getNearbyCells: the entries { x, y, cell } in the order pushed.
getNearbyCells(m, x, y, range, includeDiagonals) ==
  nearbyLoop(m, x, y, range, includeDiagonals, 0, <<>>)

\* Map.getAllUnits: the cells with a truthy occupiedBy, rows first.
getAllUnits(m) ==
  LET at(k) == <<k % m.width, k \div m.width>>
      count == IF m.width > 0 /\ m.height > 0 THEN m.width * m.height ELSE 0
      held == SelectSeq([k \in 1 .. count |-> at(k - 1)],
                        LAMBDA c : LET cell == cellAt(m, c[1], c[2])
                                   IN cell # None /\ Truthy(cell[1].occupiedBy))
  IN [i \in DOMAIN held |->
        [id |-> cellAt(m, held[i][1], held[i][2])[1].occupiedBy[1],
         position |-> Position(held[i][1], held[i][2], None)]]

\* A faulty resize that rebuilds the grid and keeps the old width and height.
resizeKeepsDimensions(m, newWidth, newHeight) ==
  IF newWidth <= 0 \/ newHeight <= 0 THEN [raised |-> TRUE, map |-> m]
  ELSE [raised |-> FALSE,
        map |-> [m EXCEPT !.cells = [y \in 0 .. newHeight - 1 |-> [x \in 0 .. newWidth - 1 |->
                                       IF x < m.width /\ y < m.height /\ cellAt(m, x, y) # None
                                       THEN cellAt(m, x, y)[1]
                                       ELSE createDefaultCell(m.config)]]]]

\* A faulty resize that fills the whole new grid with default cells.
resizeDefaultFills(m, newWidth, newHeight) ==
  IF newWidth <= 0 \/ newHeight <= 0 THEN [raised |-> TRUE, map |-> m]
  ELSE [raised |-> FALSE,
        map |-> [m EXCEPT !.width = newWidth, !.height = newHeight,
                          !.cells = initializeCells(newWidth, newHeight, m.config)]]

\* A faulty resize that accepts any dimensions.
resizeUnchecked(m, newWidth, newHeight) ==
  [raised |-> FALSE,
   map |-> [m EXCEPT !.width = newWidth, !.height = newHeight,
                     !.cells = [y \in 0 .. newHeight - 1 |-> [x \in 0 .. newWidth - 1 |->
                                  IF x < m.width /\ y < m.height /\ cellAt(m, x, y) # None
                                  THEN cellAt(m, x, y)[1]
                                  ELSE createDefaultCell(m.config)]]]]

\* Map.resize: [raised, map]; raised is the thrown Error.
resize(m, newWidth, newHeight) ==
  IF newWidth <= 0 \/ newHeight <= 0 THEN [raised |-> TRUE, map |-> m]
  ELSE [raised |-> FALSE,
        map |-> [m EXCEPT !.width = newWidth, !.height = newHeight,
                          !.cells = [y \in 0 .. newHeight - 1 |-> [x \in 0 .. newWidth - 1 |->
                                       IF x < m.width /\ y < m.height
                                       THEN IF cellAt(m, x, y) # None THEN cellAt(m, x, y)[1]
                                            ELSE createDefaultCell(m.config)
                                       ELSE createDefaultCell(m.config)]]]]

\* A faulty clone that puts the source's own cell objects into the new map.
cloneSharesCells(m, name) ==
  [map |-> [m EXCEPT !.name = IF Truthy(name) THEN name[1] ELSE m.name],
   shared |-> (0 .. m.width - 1) \X (0 .. m.height - 1)]

\* Map.clone(name?): the new Map, and the cell positions at which it holds
\* a cell object of the source. Every cell is built anew from the source
\* cell's terrain, a copy of its properties and its occupant.
clone(m, name) ==
  [map |-> [width |-> m.width, height |-> m.height,
            name |-> IF Truthy(name) THEN name[1] ELSE m.name,
            config |-> [wrapEdges |-> m.config.wrapEdges,
                        defaultTerrain |-> m.config.defaultTerrain,
                        defaultMovementCost |-> m.config.defaultMovementCost],
            cells |-> [y \in 0 .. m.height - 1 |-> [x \in 0 .. m.width - 1 |->
                         LET originalCell == cellAt(m, x, y)
                         IN IF originalCell = None THEN createDefaultCell(m.config)
                            ELSE [terrain |-> originalCell[1].terrain,
                                  properties |-> ObjectAssign(<<>>, originalCell[1].properties),
                                  occupiedBy |-> IF originalCell[1].occupiedBy # None
                                                 THEN originalCell[1].occupiedBy ELSE None]]]],
   shared |-> {}]

(* --------------------- Map objects and their cell objects -------------- *)

\* The Map objects as a value: the maps, and the cell positions at which
\* two of them hold one and the same cell object.
Objects == [heap |-> heap, shared |-> shared]

\* cell.occupiedBy written or deleted in place at the cell (x, y) resolves
\* to in the map ref: every map holding that cell object sees the change.
writeOccupant(o, ref, x, y, newMap) ==
  LET wx == getWrappedCoordinate(newMap, x, newMap.width)
      wy == getWrappedCoordinate(newMap, y, newMap.height)
  IN [r \in DOMAIN o.heap |->
        IF r = ref THEN newMap
        ELSE IF <<wx, wy>> \in o.shared
        THEN [o.heap[r] EXCEPT !.cells[wy][wx].occupiedBy = newMap.cells[wy][wx].occupiedBy]
        ELSE o.heap[r]]

placeUnitOn(o, ref, unitId, x, y) ==
  LET r == placeUnit(o.heap[ref], unitId, x, y)
  IN [ok |-> r.ok, shared |-> o.shared,
      heap |-> IF r.ok THEN writeOccupant(o, ref, x, y, r.map) ELSE o.heap]

removeUnitOn(o, ref, x, y) ==
  LET r == mapRemoveUnit(o.heap[ref], x, y)
  IN [ok |-> r.ok, shared |-> o.shared,
      heap |-> IF r.ok THEN writeOccupant(o, ref, x, y, r.map) ELSE o.heap]

\* setTerrain puts a new cell object into the grid of ref alone.
setTerrainOn(o, ref, x, y, terrain, properties) ==
  LET r == setTerrainWith(o.heap[ref], x, y, terrain, properties)
      m == o.heap[ref]
  IN [ok |-> r.ok,
      shared |-> IF r.ok
                 THEN o.shared \ {<<getWrappedCoordinate(m, x, m.width),
                                     getWrappedCoordinate(m, y, m.height)>>}
                 ELSE o.shared,
      heap |-> [o.heap EXCEPT ![ref] = r.map]]

\* resize gives ref a new grid: the cell objects kept stay shared, the
\* dropped ones are gone from it.
resizeOn(o, ref, newWidth, newHeight) ==
  LET r == resize(o.heap[ref], newWidth, newHeight)
  IN [ok |-> ~r.raised,
      shared |-> IF r.raised THEN o.shared
                 ELSE o.shared \cap ((0 .. newWidth - 1) \X (0 .. newHeight - 1)),
      heap |-> [o.heap EXCEPT ![ref] = r.map]]

\* newRef = source.clone(name)
cloneOn(o, ref, newRef, name) ==
  LET r == clone(o.heap[ref], name)
  IN [ok |-> TRUE, shared |-> r.shared,
      heap |-> [k \in DOMAIN o.heap \cup {newRef} |->
                  IF k = newRef THEN r.map ELSE o.heap[k]]]

(* ------------------------------- World --------------------------------- *)

\* The World as a value: what the methods read and what they leave behind.
\* variant "absent": getMap and getUnitPosition return undefined on a miss;
\* variant "throws": they raise, and the mutators guard or catch.
World == [heap |-> heap, maps |-> maps, unitPositions |-> unitPositions,
          variant |-> variant]

\* What a call leaves: the value returned, the return statement taken, the world.
Result(w, ret, path) == [ret |-> ret, path |-> path, heap |-> w.heap, maps |-> w.maps,
                         unitPositions |-> w.unitPositions, variant |-> w.variant]

Min(S) == CHOOSE i \in S : \A j \in S : i <= j

\* this.maps.findIndex(map => map.name === name), 1-based; 0 when not found.
findIndex(w, name) ==
  LET hits == {i \in 1 .. Len(w.maps) : w.heap[w.maps[i]].name = name}
  IN IF hits = {} THEN 0 ELSE Min(hits)

\* World.getMap: the reference of the first map of that name, or nothing
\* (undefined in one variant, a raised error in the other).
getMap(w, name) ==
  LET index == findIndex(w, name) IN IF index = 0 THEN None ELSE Some(w.maps[index])

getUnitPosition(w, unitId) ==
  IF unitId \in DOMAIN w.unitPositions THEN Some(w.unitPositions[unitId]) ELSE None

\* A faulty addMap that skips the name check.
addMapUnchecked(w, ref) == Result([w EXCEPT !.maps = Append(@, ref)], TRUE, "ok")

addMap(w, ref) ==
  IF \E i \in 1 .. Len(w.maps) : w.heap[w.maps[i]].name = w.heap[ref].name
  THEN Result(w, FALSE, "duplicate")
  ELSE Result([w EXCEPT !.maps = Append(@, ref)], TRUE, "ok")

\* A faulty removeMap that takes the map out and keeps the tracked positions.
removeMapKeepsUnits(w, name) ==
  LET index == findIndex(w, name)
  IN IF index = 0 THEN Result(w, FALSE, "noMap")
     ELSE Result([w EXCEPT
                    !.maps = [i \in 1 .. Len(w.maps) - 1 |->
                                IF i < index THEN w.maps[i] ELSE w.maps[i + 1]]],
                 TRUE, "ok")

removeMap(w, name) ==
  LET index == findIndex(w, name)
  IN IF index = 0 THEN Result(w, FALSE, "noMap")
     ELSE LET kept == {u \in DOMAIN w.unitPositions : w.unitPositions[u].mapId # name}
          IN Result([w EXCEPT
                       !.unitPositions = [u \in kept |-> w.unitPositions[u]],
                       !.maps = [i \in 1 .. Len(w.maps) - 1 |->
                                   IF i < index THEN w.maps[i] ELSE w.maps[i + 1]]],
                    TRUE, "ok")

\* currentMap.removeUnit(currentPos.position.x, currentPos.position.y) on the
\* map named by the tracked position, skipped when that map is not in the world.
vacate(w, currentPos) ==
  LET currentMap == getMap(w, currentPos.mapId)
  IN IF currentMap = None THEN w
     ELSE [w EXCEPT !.heap[currentMap[1]] =
             mapRemoveUnit(@, currentPos.position.x, currentPos.position.y).map]

\* this.unitPositions.set(unitId, { mapId, position })
setTracked(w, unitId, mapId, position) ==
  [w EXCEPT !.unitPositions =
     [u \in DOMAIN @ \cup {unitId} |->
        IF u = unitId THEN [mapId |-> mapId, position |-> position] ELSE @[u]]]

setUnitPosition(w, unitId, mapId, position) ==
  LET map == getMap(w, mapId)
  IN IF map = None THEN Result(w, FALSE, "noMap")
     ELSE IF ~canPlaceUnitAt(w.heap[map[1]], position.x, position.y)
     THEN Result(w, FALSE, placeability(w.heap[map[1]], position.x, position.y))
     ELSE LET currentPos == getUnitPosition(w, unitId)
              w1 == IF currentPos # None THEN vacate(w, currentPos[1]) ELSE w
              placed == placeUnit(w1.heap[map[1]], unitId, position.x, position.y)
          IN IF ~placed.ok THEN Result(w1, FALSE, "placeFailed")
             ELSE Result(setTracked([w1 EXCEPT !.heap[map[1]] = placed.map], unitId, mapId,
                                    Position(position.x, position.y, position.z)),
                         TRUE, IF currentPos # None THEN "moved" ELSE "placed")

\* A faulty removeUnit that forgets the map's cell.
removeUnitKeepsOccupant(w, unitId) ==
  LET currentPos == getUnitPosition(w, unitId)
  IN IF currentPos = None THEN Result(w, FALSE, "untracked")
     ELSE Result([w EXCEPT !.unitPositions =
                    [u \in DOMAIN @ \ {unitId} |-> @[u]]], TRUE, "ok")

removeUnit(w, unitId) ==
  LET currentPos == getUnitPosition(w, unitId)
  IN IF currentPos = None THEN Result(w, FALSE, "untracked")
     ELSE LET w1 == vacate(w, currentPos[1])
          IN Result([w1 EXCEPT !.unitPositions =
                       [u \in DOMAIN @ \ {unitId} |-> @[u]]], TRUE, "ok")

\* A faulty moveUnit that vacates the old cell before it knows that the
\* destination can be taken, and does not put the unit back.
moveUnitNoRestore(w, unitId, newX, newY) ==
  LET currentPos == getUnitPosition(w, unitId)
  IN IF currentPos = None THEN Result(w, FALSE, "untracked")
     ELSE LET map == getMap(w, currentPos[1].mapId)
          IN IF map = None THEN Result(w, FALSE, "noMap")
             ELSE LET old == currentPos[1].position
                      removed == mapRemoveUnit(w.heap[map[1]], old.x, old.y).map
                      placed == placeUnit(removed, unitId, newX, newY)
                  IN IF ~placed.ok
                     THEN Result([w EXCEPT !.heap[map[1]] = removed], FALSE,
                                 placeability(removed, newX, newY))
                     ELSE Result(setTracked([w EXCEPT !.heap[map[1]] = placed.map], unitId,
                                            currentPos[1].mapId,
                                            Position(newX, newY, old.z)),
                                 TRUE, "ok")

moveUnit(w, unitId, newX, newY) ==
  LET currentPos == getUnitPosition(w, unitId)
  IN IF currentPos = None THEN Result(w, FALSE, "untracked")
     ELSE LET map == getMap(w, currentPos[1].mapId)
          IN IF map = None THEN Result(w, FALSE, "noMap")
             ELSE IF ~canPlaceUnitAt(w.heap[map[1]], newX, newY)
             THEN Result(w, FALSE, placeability(w.heap[map[1]], newX, newY))
             ELSE LET old == currentPos[1].position
                      removed == mapRemoveUnit(w.heap[map[1]], old.x, old.y).map
                      placed == placeUnit(removed, unitId, newX, newY)
                  IN IF ~placed.ok
                     THEN Result([w EXCEPT !.heap[map[1]] =
                                    placeUnit(removed, unitId, old.x, old.y).map],
                                 FALSE, "rollback")
                     ELSE Result(setTracked([w EXCEPT !.heap[map[1]] = placed.map], unitId,
                                            currentPos[1].mapId,
                                            Position(newX, newY, old.z)),
                                 TRUE, "ok")

\* A faulty moveUnitToMap that vacates the old cell before it knows that the
\* destination can be taken, and does not put the unit back.
moveUnitToMapNoRestore(w, unitId, newMapId, newX, newY) ==
  LET currentPos == getUnitPosition(w, unitId)
  IN IF currentPos = None THEN Result(w, FALSE, "untracked")
     ELSE LET newMap == getMap(w, newMapId)
          IN IF newMap = None THEN Result(w, FALSE, "noMap")
             ELSE LET w1 == vacate(w, currentPos[1])
                      placed == placeUnit(w1.heap[newMap[1]], unitId, newX, newY)
                  IN IF ~placed.ok
                     THEN Result(w1, FALSE, placeability(w1.heap[newMap[1]], newX, newY))
                     ELSE Result(setTracked([w1 EXCEPT !.heap[newMap[1]] = placed.map],
                                            unitId, newMapId, Position(newX, newY, None)),
                                 TRUE, "ok")

\* In the variant whose getMap raises, a missing old map makes the call
\* return false before anything is placed; in the other the old cell is
\* skipped and the move goes on.
\* A faulty moveUnitToMap that carries the tracked z over, as moveUnit does.
moveUnitToMapKeepsZ(w, unitId, newMapId, newX, newY) ==
  LET currentPos == getUnitPosition(w, unitId)
  IN IF currentPos = None THEN Result(w, FALSE, "untracked")
     ELSE LET newMap == getMap(w, newMapId)
          IN IF newMap = None THEN Result(w, FALSE, "noMap")
             ELSE IF ~canPlaceUnitAt(w.heap[newMap[1]], newX, newY)
             THEN Result(w, FALSE, placeability(w.heap[newMap[1]], newX, newY))
             ELSE LET w1 == vacate(w, currentPos[1])
                      placed == placeUnit(w1.heap[newMap[1]], unitId, newX, newY)
                  IN Result(setTracked([w1 EXCEPT !.heap[newMap[1]] = placed.map],
                                       unitId, newMapId,
                                       Position(newX, newY, currentPos[1].position.z)),
                            TRUE, "ok")

moveUnitToMap(w, unitId, newMapId, newX, newY) ==
  LET currentPos == getUnitPosition(w, unitId)
  IN IF currentPos = None THEN Result(w, FALSE, "untracked")
     ELSE LET newMap == getMap(w, newMapId)
          IN IF newMap = None THEN Result(w, FALSE, "noMap")
             ELSE IF ~canPlaceUnitAt(w.heap[newMap[1]], newX, newY)
             THEN Result(w, FALSE, placeability(w.heap[newMap[1]], newX, newY))
             ELSE LET currentMap == getMap(w, currentPos[1].mapId)
                      old == currentPos[1].position
                      w1 == vacate(w, currentPos[1])
                      placed == placeUnit(w1.heap[newMap[1]], unitId, newX, newY)
                  IN IF currentMap = None /\ w.variant = "throws"
                     THEN Result(w, FALSE, "noOldMap")
                     ELSE IF ~placed.ok
                     THEN Result(IF currentMap = None THEN w1
                                 ELSE [w1 EXCEPT !.heap[currentMap[1]] =
                                         placeUnit(@, unitId, old.x, old.y).map],
                                 FALSE, "rollback")
                     ELSE Result(setTracked([w1 EXCEPT !.heap[newMap[1]] = placed.map],
                                            unitId, newMapId, Position(newX, newY, None)),
                                 TRUE,
                                 IF newMapId = currentPos[1].mapId THEN "sameMap" ELSE "ok")

\* World.getUnitsOnMap: the tracked entities whose mapId is the name, as a
\* set (the order is that of the Map of tracked positions).
getUnitsOnMap(w, mapId) ==
  {[unitId |-> u, position |-> w.unitPositions[u].position] :
     u \in {v \in DOMAIN w.unitPositions : w.unitPositions[v].mapId = mapId}}

NoPositions == [u \in {} |-> None]

clear(w) == Result([w EXCEPT !.maps = <<>>, !.unitPositions = NoPositions], TRUE, "ok")

\* How a lookup that finds nothing ends: with undefined, or with a raised Error.
missSignal(w) == IF w.variant = "throws" THEN "raised" ELSE "absent"

\* How getMap(name) ends: "found", "absent" (undefined) or "raised".
getMapSignal(w, name) == IF findIndex(w, name) # 0 THEN "found" ELSE missSignal(w)

\* How getUnitPosition(unitId) ends.
getUnitPositionSignal(w, unitId) ==
  IF unitId \in DOMAIN w.unitPositions THEN "found" ELSE missSignal(w)

\* A faulty getDistanceBetweenUnits that does not compare the maps.
getDistanceAcrossMaps(w, unit1Id, unit2Id) ==
  LET pos1 == getUnitPosition(w, unit1Id)
      pos2 == getUnitPosition(w, unit2Id)
  IN IF pos1 = None \/ pos2 = None
     THEN [kind |-> IF w.variant = "throws" THEN "raised" ELSE "null"]
     ELSE [kind |-> "value", value |-> distanceTo(pos1[1].position, pos2[1].position)]

\* World.getDistanceBetweenUnits: [kind |-> "null"], [kind |-> "raised"] or a
\* value. The variant whose lookups raise also raises for two maps.
getDistanceBetweenUnits(w, unit1Id, unit2Id) ==
  LET pos1 == getUnitPosition(w, unit1Id)
      pos2 == getUnitPosition(w, unit2Id)
  IN IF pos1 = None \/ pos2 = None
     THEN [kind |-> IF w.variant = "throws" THEN "raised" ELSE "null"]
     ELSE IF pos1[1].mapId # pos2[1].mapId
     THEN [kind |-> IF w.variant = "throws" THEN "raised" ELSE "null"]
     ELSE [kind |-> "value", value |-> distanceTo(pos1[1].position, pos2[1].position)]

\* World.areUnitsAdjacent: [kind |-> "null"], [kind |-> "raised"] or a boolean.
areUnitsAdjacent(w, unit1Id, unit2Id, allowDiagonal) ==
  LET pos1 == getUnitPosition(w, unit1Id)
      pos2 == getUnitPosition(w, unit2Id)
  IN IF pos1 = None \/ pos2 = None
     THEN [kind |-> IF w.variant = "throws" THEN "raised" ELSE "null"]
     ELSE IF pos1[1].mapId # pos2[1].mapId THEN [kind |-> "value", value |-> FALSE]
     ELSE [kind |-> "value",
           value |-> isAdjacentTo(pos1[1].position, pos2[1].position, allowDiagonal)]

(* --------------------------- the state machine ------------------------- *)

\* The Map objects a caller has constructed before the first call: "o1" and
\* "o3" share a name, "o2" wraps its edges, and one cell of "o1" is water.
NewHeap ==
  [ref \in MapRefs |->
     CASE ref = "o1" -> setTerrain(NewMap(2, 2, "A", FALSE), 1, 1, "water").map
       [] ref = "o2" -> NewMap(2, 1, "B", TRUE)
       [] OTHER -> NewMap(1, 1, "A", FALSE)]

\* What `last` records of a call.
Returned(op, r) == [op |-> op, ret |-> r.ret, path |-> r.path]

InitWorld ==
  /\ heap = NewHeap
  /\ maps = <<>>
  /\ unitPositions = NoPositions
  /\ shared = {}
  /\ calls = 0
  /\ last = [op |-> "new", ret |-> TRUE, path |-> "ok"]

\* The World whose lookups return undefined, called with 2D positions.
Init == InitWorld /\ variant = "absent" /\ zInputs = {None}

\* The World whose lookups raise, called with 2D positions.
InitThrows == InitWorld /\ variant = "throws" /\ zInputs = {None}

\* The World whose lookups return undefined, called with 3D positions; a
\* tracked position loses its z when moveUnitToMap rebuilds it.
InitZ == InitWorld /\ variant = "absent" /\ zInputs = ZValues \ {None}

AddMap ==
  \E ref \in MapRefs :
    LET r == addMap(World, ref)
    IN /\ calls < MaxCalls
       /\ calls' = calls + 1
       /\ heap' = r.heap /\ maps' = r.maps /\ unitPositions' = r.unitPositions
       /\ last' = Returned("addMap", r)
       /\ UNCHANGED <<variant, zInputs, shared>>

RemoveMap ==
  \E name \in MapNames :
    LET r == removeMap(World, name)
    IN /\ calls < MaxCalls
       /\ calls' = calls + 1
       /\ heap' = r.heap /\ maps' = r.maps /\ unitPositions' = r.unitPositions
       /\ last' = Returned("removeMap", r)
       /\ UNCHANGED <<variant, zInputs, shared>>

SetUnitPosition ==
  \E unitId \in UnitIds, mapId \in MapNames, x \in Coords, y \in YCoords, z \in zInputs :
    LET r == setUnitPosition(World, unitId, mapId, [x |-> x, y |-> y, z |-> z])
    IN /\ calls < MaxCalls
       /\ calls' = calls + 1
       /\ heap' = r.heap /\ maps' = r.maps /\ unitPositions' = r.unitPositions
       /\ last' = Returned("setUnitPosition", r)
       /\ UNCHANGED <<variant, zInputs, shared>>

RemoveUnit ==
  \E unitId \in UnitIds :
    LET r == removeUnit(World, unitId)
    IN /\ calls < MaxCalls
       /\ calls' = calls + 1
       /\ heap' = r.heap /\ maps' = r.maps /\ unitPositions' = r.unitPositions
       /\ last' = Returned("removeUnit", r)
       /\ UNCHANGED <<variant, zInputs, shared>>

MoveUnit ==
  \E unitId \in UnitIds, x \in Coords, y \in YCoords :
    LET r == moveUnit(World, unitId, x, y)
    IN /\ calls < MaxCalls
       /\ calls' = calls + 1
       /\ heap' = r.heap /\ maps' = r.maps /\ unitPositions' = r.unitPositions
       /\ last' = Returned("moveUnit", r)
       /\ UNCHANGED <<variant, zInputs, shared>>

MoveUnitToMap ==
  \E unitId \in UnitIds, mapId \in MapNames, x \in Coords, y \in YCoords :
    LET r == moveUnitToMap(World, unitId, mapId, x, y)
    IN /\ calls < MaxCalls
       /\ calls' = calls + 1
       /\ heap' = r.heap /\ maps' = r.maps /\ unitPositions' = r.unitPositions
       /\ last' = Returned("moveUnitToMap", r)
       /\ UNCHANGED <<variant, zInputs, shared>>

Clear ==
  LET r == clear(World)
  IN /\ calls < MaxCalls
     /\ calls' = calls + 1
     /\ heap' = r.heap /\ maps' = r.maps /\ unitPositions' = r.unitPositions
     /\ last' = Returned("clear", r)
     /\ UNCHANGED <<variant, zInputs, shared>>

Next ==
  \/ AddMap
  \/ RemoveMap
  \/ SetUnitPosition
  \/ RemoveUnit
  \/ MoveUnit
  \/ MoveUnitToMap
  \/ Clear

Spec == Init /\ [][Next]_vars

SpecThrows == InitThrows /\ [][Next]_vars

SpecZ == InitZ /\ [][Next]_vars

(* ------------------- a Map called without a World ---------------------- *)

\* A behaviour of a Map alone makes at most MaxMapCalls calls.
MaxMapCalls == 4

\* Rows handed to the Map operations: one below the first two.
MapYCoords == {-1, 0, 1}

\* Dimensions handed to resize.
Sizes == {-1, 0, 1, 2}

Terrains == {"grass", "water"}

\* The properties argument of setTerrain: left out, or { impassable: true }.
Overrides == {None, Some([impassable |-> TRUE])}

\* The caller has constructed one Map, with or without wrapEdges, and no
\* World holds it.
InitMap ==
  /\ \E ref \in {"o1", "o2"} : heap = [r \in {ref} |-> NewHeap[r]]
  /\ maps = <<>>
  /\ unitPositions = NoPositions
  /\ variant = "absent"
  /\ zInputs = {None}
  /\ shared = {}
  /\ calls = 0
  /\ last = [op |-> "new", ret |-> TRUE, path |-> "ok"]

MapSetTerrain ==
  \E ref \in DOMAIN heap, x \in Coords, y \in MapYCoords, terrain \in Terrains,
     properties \in Overrides :
    LET r == setTerrainOn(Objects, ref, x, y, terrain, properties)
    IN /\ calls < MaxMapCalls
       /\ calls' = calls + 1
       /\ heap' = r.heap /\ shared' = r.shared
       /\ last' = [op |-> "setTerrain", ret |-> r.ok, path |-> IF r.ok THEN "ok" ELSE "noCell"]
       /\ UNCHANGED <<maps, unitPositions, variant, zInputs>>

MapPlaceUnit ==
  \E ref \in DOMAIN heap, unitId \in UnitIds, x \in Coords, y \in MapYCoords :
    LET r == placeUnitOn(Objects, ref, unitId, x, y)
    IN /\ calls < MaxMapCalls
       /\ calls' = calls + 1
       /\ heap' = r.heap /\ shared' = r.shared
       /\ last' = [op |-> "placeUnit", ret |-> r.ok, path |-> placeability(heap[ref], x, y)]
       /\ UNCHANGED <<maps, unitPositions, variant, zInputs>>

MapRemoveUnit ==
  \E ref \in DOMAIN heap, x \in Coords, y \in MapYCoords :
    LET r == removeUnitOn(Objects, ref, x, y)
    IN /\ calls < MaxMapCalls
       /\ calls' = calls + 1
       /\ heap' = r.heap /\ shared' = r.shared
       /\ last' = [op |-> "removeUnit", ret |-> r.ok, path |-> IF r.ok THEN "ok" ELSE "noCell"]
       /\ UNCHANGED <<maps, unitPositions, variant, zInputs>>

MapResize ==
  \E ref \in DOMAIN heap, newWidth \in Sizes, newHeight \in Sizes :
    LET r == resizeOn(Objects, ref, newWidth, newHeight)
    IN /\ calls < MaxMapCalls
       /\ calls' = calls + 1
       /\ heap' = r.heap /\ shared' = r.shared
       /\ last' = [op |-> "resize", ret |-> r.ok, path |-> IF r.ok THEN "ok" ELSE "raised"]
       /\ UNCHANGED <<maps, unitPositions, variant, zInputs>>

\* The one Map built so far is cloned under a new name; the clone is made
\* late enough in a behaviour that at most one call follows it.
MapClone ==
  \E ref \in DOMAIN heap, name \in {Some("Copy")} :
    LET r == cloneOn(Objects, ref, "c1", name)
    IN /\ calls < MaxMapCalls
       /\ calls + 2 >= MaxMapCalls
       /\ DOMAIN heap = {ref}
       /\ calls' = calls + 1
       /\ heap' = r.heap /\ shared' = r.shared
       /\ last' = [op |-> "clone", ret |-> TRUE, path |-> "ok"]
       /\ UNCHANGED <<maps, unitPositions, variant, zInputs>>

NextMap ==
  \/ MapSetTerrain
  \/ MapPlaceUnit
  \/ MapRemoveUnit
  \/ MapResize

SpecMap == InitMap /\ [][NextMap]_vars

NextClone ==
  \/ MapSetTerrain
  \/ MapPlaceUnit
  \/ MapRemoveUnit
  \/ MapResize
  \/ MapClone

\* A Map and, once made, its clone, both called directly.
SpecClone == InitMap /\ [][NextClone]_vars

\* Widths and heights handed to the constructor.
Dimensions == {-1, 0, 1, 3}

\* new Map(width, height, 'A'): the constructor stores the dimensions it is
\* given and builds the grid from them.
InitBuilt ==
  /\ \E width \in Dimensions, height \in Dimensions :
       heap = [r \in {"o1"} |-> NewMap(width, height, "A", FALSE)]
  /\ maps = <<>>
  /\ unitPositions = NoPositions
  /\ variant = "absent"
  /\ zInputs = {None}
  /\ shared = {}
  /\ calls = 0
  /\ last = [op |-> "new", ret |-> TRUE, path |-> "ok"]

NextBuilt ==
  \/ MapPlaceUnit
  \/ MapRemoveUnit

\* A Map as the constructor leaves it, and units placed on it.
SpecBuilt == InitBuilt /\ [][NextBuilt]_vars

(* ------------------- position utilities over a World ------------------- *)

\* Math.sign on the integers.
Sign(n) == IF n > 0 THEN 1 ELSE IF n < 0 THEN -1 ELSE 0

\* Math.min(Math.max(v, 0), limit - 1)
Clamp(v, limit) ==
  LET raised == IF v >= 0 THEN v ELSE 0
  IN IF raised <= limit - 1 THEN raised ELSE limit - 1

\* A faulty stepTowards that steps on both axes at once.
stepTowardsDiagonal(w, mapId, from, to) ==
  LET index == findIndex(w, mapId)
      width == IF index # 0 THEN w.heap[w.maps[index]].width ELSE from.x + 1
      height == IF index # 0 THEN w.heap[w.maps[index]].height ELSE from.y + 1
  IN Position(Clamp(from.x + Sign(to.x - from.x), width),
              Clamp(from.y + Sign(to.y - from.y), height), from.z)

\* A faulty stepTowards that prefers the y axis when the deltas tie.
stepTowardsYOnTie(w, mapId, from, to) ==
  LET index == findIndex(w, mapId)
      width == IF index # 0 THEN w.heap[w.maps[index]].width ELSE from.x + 1
      height == IF index # 0 THEN w.heap[w.maps[index]].height ELSE from.y + 1
      dx == to.x - from.x
      dy == to.y - from.y
      stepX == IF Abs(dx) > Abs(dy) THEN Sign(dx) ELSE 0
      stepY == IF Abs(dx) > Abs(dy) THEN 0 ELSE Sign(dy)
  IN Position(Clamp(from.x + stepX, width), Clamp(from.y + stepY, height), from.z)

\* stepTowards(world, mapId, from, to): the map is looked up in
\* world.getAllMaps(), which raises in neither World.
stepTowards(w, mapId, from, to) ==
  LET index == findIndex(w, mapId)
      width == IF index # 0 THEN w.heap[w.maps[index]].width ELSE from.x + 1
      height == IF index # 0 THEN w.heap[w.maps[index]].height ELSE from.y + 1
      dx == to.x - from.x
      dy == to.y - from.y
      stepX == IF Abs(dx) >= Abs(dy) THEN Sign(dx) ELSE 0
      stepY == IF Abs(dx) >= Abs(dy) THEN 0 ELSE Sign(dy)
  IN Position(Clamp(from.x + stepX, width), Clamp(from.y + stepY, height), from.z)

\* A caller walks from one cell of a 4 x 3 map of its world to another by
\* replacing `from` with stepTowards(world, mapId, from, to); `calls` counts
\* the steps taken.
InitWalk ==
  /\ heap = [r \in {"o1"} |-> NewMap(4, 3, "A", FALSE)]
  /\ maps = <<"o1">>
  /\ unitPositions = NoPositions
  /\ variant = "absent"
  /\ zInputs = ZValues
  /\ shared = {}
  /\ calls = 0
  /\ \E f \in (0 .. 3) \X (0 .. 2), t \in (0 .. 3) \X (0 .. 2), z \in ZValues :
       last = [op |-> "walk", start |-> Position(f[1], f[2], z),
               from |-> Position(f[1], f[2], z), to |-> Position(t[1], t[2], None)]

\* from = stepTowards(world, 'A', from, to); the caller goes on for one
\* step after the number of steps the start was away.
Walk ==
  /\ calls <= Abs(last.to.x - last.start.x) + Abs(last.to.y - last.start.y)
  /\ calls' = calls + 1
  /\ last' = [last EXCEPT !.from = stepTowards(World, "A", last.from, last.to)]
  /\ UNCHANGED <<heap, maps, unitPositions, variant, zInputs, shared>>

NextWalk == Walk

SpecWalk == InitWalk /\ [][NextWalk]_vars

\* The offsets getAdjacentPositions walks, in its order.
directions(allowDiagonal) ==
  LET cardinal == << <<-1, 0>>, <<1, 0>>, <<0, -1>>, <<0, 1>> >>
  IN IF allowDiagonal
     THEN cardinal \o << <<-1, -1>>, <<-1, 1>>, <<1, -1>>, <<1, 1>> >>
     ELSE cardinal

\* x >= 0 && x < map.width && y >= 0 && y < map.height, where map is what
\* getMap returned: reading map.width of undefined raises a TypeError, and
\* && reads it only when x >= 0.
inBoundsOf(w, map, x, y) ==
  IF x < 0 THEN [kind |-> "value", value |-> FALSE]
  ELSE IF map = None THEN [kind |-> "raised", value |-> FALSE]
  ELSE [kind |-> "value",
        value |-> x < w.heap[map[1]].width /\ y >= 0 /\ y < w.heap[map[1]].height]

\* The loop of getAdjacentPositions over the offsets left to walk.
RECURSIVE adjacentLoop(_, _, _, _, _, _)
adjacentLoop(w, map, x, y, dirs, adjacentPositions) ==
  IF dirs = <<>> THEN [kind |-> "value", value |-> adjacentPositions]
  ELSE LET newX == x + Head(dirs)[1]
           newY == y + Head(dirs)[2]
           inside == inBoundsOf(w, map, newX, newY)
       IN IF inside.kind = "raised" THEN [kind |-> "raised", value |-> <<>>]
          ELSE adjacentLoop(w, map, x, y, Tail(dirs),
                            IF inside.value
                            THEN Append(adjacentPositions, Position(newX, newY, None))
                            ELSE adjacentPositions)

\* The try block of getAdjacentPositions.
adjacentTry(w, mapId, x, y, allowDiagonal) ==
  IF getMapSignal(w, mapId) = "raised" THEN [kind |-> "raised", value |-> <<>>]
  ELSE adjacentLoop(w, getMap(w, mapId), x, y, directions(allowDiagonal), <<>>)

\* A faulty getAdjacentPositions without its catch.
getAdjacentPositionsUncaught(w, mapId, x, y, allowDiagonal) ==
  adjacentTry(w, mapId, x, y, allowDiagonal)

\* getAdjacentPositions(world, mapId, x, y, allowDiagonal): try, and []
\* from the catch.
getAdjacentPositions(w, mapId, x, y, allowDiagonal) ==
  LET tried == adjacentTry(w, mapId, x, y, allowDiagonal)
  IN IF tried.kind = "raised" THEN [kind |-> "value", value |-> <<>>] ELSE tried

\* isValidPosition(world, mapId, x, y): try, and false from the catch.
isValidPosition(w, mapId, x, y) ==
  LET tried == IF getMapSignal(w, mapId) = "raised"
               THEN [kind |-> "raised", value |-> FALSE]
               ELSE inBoundsOf(w, getMap(w, mapId), x, y)
  IN IF tried.kind = "raised" THEN [kind |-> "value", value |-> FALSE] ELSE tried

\* getPositionAtCoordinate: positions.find(..), the first record at the
\* coordinate or undefined.
getPositionAtCoordinate(positions, mapId, x, y) ==
  LET hits == {i \in DOMAIN positions :
                 /\ positions[i].mapId = mapId
                 /\ positions[i].position.x = x
                 /\ positions[i].position.y = y}
  IN IF hits = {} THEN None ELSE Some(positions[Min(hits)])

\* The loop of getAdjacentPositionsToPosition over the neighbours left.
RECURSIVE adjacentObjects(_, _, _, _)
adjacentObjects(positions, referencePosition, adjacentPositions, found) ==
  IF adjacentPositions = <<>> THEN found
  ELSE LET adjPos == Head(adjacentPositions)
           positionAtPos == getPositionAtCoordinate(positions, referencePosition.mapId,
                                                    adjPos.x, adjPos.y)
       IN adjacentObjects(positions, referencePosition, Tail(adjacentPositions),
            IF positionAtPos # None /\ positionAtPos[1].unitId # referencePosition.unitId
            THEN Append(found, positionAtPos[1])
            ELSE found)

\* getAdjacentPositionsToPosition(positions, world, referencePosition,
\* allowDiagonal).
getAdjacentPositionsToPosition(positions, w, referencePosition, allowDiagonal) ==
  adjacentObjects(positions, referencePosition,
                  getAdjacentPositions(w, referencePosition.mapId,
                                       referencePosition.position.x,
                                       referencePosition.position.y,
                                       allowDiagonal).value,
                  <<>>)

\* The two ways a World answers a lookup that finds nothing.
Variants == {"absent", "throws"}

\* Either World, before the first call.
InitEither == InitWorld /\ variant \in Variants /\ zInputs = {None}

\* The calls that change which maps a lookup finds.
NextLookup ==
  \/ AddMap
  \/ RemoveMap
  \/ Clear

SpecLookup == InitEither /\ [][NextLookup]_vars

(* --------------------- functions called on their own ------------------- *)

\* arePositionsAdjacent(pos1, pos2, allowDiagonal) of the position utilities.
arePositionsAdjacent(pos1, pos2, allowDiagonal) ==
  IF pos1.mapId # pos2.mapId THEN FALSE
  ELSE LET dx == Abs(pos1.position.x - pos2.position.x)
           dy == Abs(pos1.position.y - pos2.position.y)
       IN IF allowDiagonal
          THEN (dx = 1 /\ dy = 0) \/ (dx = 0 /\ dy = 1) \/ (dx = 1 /\ dy = 1)
          ELSE (dx = 1 /\ dy = 0) \/ (dx = 0 /\ dy = 1)

\* `${pos.mapId}:${pos.position.x},${pos.position.y}`
collisionKey(pos) ==
  pos.mapId \o <<":">> \o NumberToString(pos.position.x)
            \o <<",">> \o NumberToString(pos.position.y)

\* The own keys of `seen`, in the order Object.entries lists them: the order
\* in which the first loop created them (no key is an array index, every key
\* holds a ':').
RECURSIVE seenKeys(_, _)
seenKeys(positions, keys) ==
  IF positions = <<>> THEN keys
  ELSE LET key == collisionKey(Head(positions))
       IN seenKeys(Tail(positions),
                   IF \E i \in DOMAIN keys : keys[i] = key THEN keys
                   ELSE Append(keys, key))

\* seen[key]: the records pushed under key, in input order.
occupantsOf(positions, key) ==
  SelectSeq(positions, LAMBDA pos : collisionKey(pos) = key)

\* The second loop of findCollisions over the entries of `seen`.
RECURSIVE collisionsOf(_, _)
collisionsOf(positions, keys) ==
  IF keys = <<>> THEN <<>>
  ELSE LET key == Head(keys)
           occupants == occupantsOf(positions, key)
           parts == Split(key, ":")
           rest == collisionsOf(positions, Tail(keys))
       IN IF Len(occupants) <= 1 THEN rest
          ELSE IF Len(parts) < 2 THEN rest
          ELSE LET mapPart == parts[1]
                   coordPart == parts[2]
                   coords == Split(coordPart, ",")
               IN IF Len(coords) < 2 THEN rest
                  ELSE <<[mapId |-> mapPart,
                          x |-> Number(coords[1]),
                          y |-> Number(coords[2]),
                          positions |-> occupants]>> \o rest

\* findCollisions(positions) of the position utilities.
findCollisions(positions) == collisionsOf(positions, seenKeys(positions, <<>>))

\* The longest list handed to findCollisions.
MaxRecords == 3

\* Map ids: a plain one, one with ':' and one with ','.
MapIds == {<<"a">>, <<"a", ":", "b">>, <<"a", ",", "b">>}

\* The record of unit number i.
UnitRecord(i, mapId, x, y) ==
  [unitId |-> i, mapId |-> mapId, position |-> [x |-> x, y |-> y, z |-> None]]

RecordLists ==
  UNION {[1 .. n -> [mapId : MapIds, x : {0, 1}, y : {2}]] : n \in 0 .. MaxRecords}

FindCollisions ==
  \E choice \in RecordLists :
    LET positions == [i \in DOMAIN choice |->
                        UnitRecord(i, choice[i].mapId, choice[i].x, choice[i].y)]
    IN /\ last' = [op |-> "findCollisions", positions |-> positions,
                   ret |-> findCollisions(positions)]
       /\ UNCHANGED <<heap, maps, unitPositions, variant, zInputs, shared, calls>>

NextCollisions == FindCollisions

SpecCollisions == Init /\ [][NextCollisions]_vars

\* Integer coordinates of one and several digits, of both signs.
PrintedCoords == {-12, -1, 0, 7, 10, 105}

PrintedPositions == [x : PrintedCoords, y : PrintedCoords, z : {None, Some(-3), Some(0), Some(20)}]

\* Positions whose differences run from 0 to 2 on both axes.
NearPositions == [x : 0 .. 2, y : 0 .. 2, z : ZValues]

\* p.toString() is handed to Position.fromString.
RoundTrip ==
  \E p \in PrintedPositions :
    /\ last' = [op |-> "fromString", this |-> p, str |-> toString(p),
                ret |-> fromString(toString(p))]
    /\ UNCHANGED <<heap, maps, unitPositions, variant, zInputs, shared, calls>>

\* this.isAdjacentTo(other, allowDiagonal), and arePositionsAdjacent on two
\* records that carry the same two positions.
IsAdjacentTo ==
  \E this \in NearPositions, other \in NearPositions, allowDiagonal \in BOOLEAN,
     mapId1 \in {"A", "B"}, mapId2 \in {"A", "B"} :
    /\ last' = [op |-> "isAdjacentTo", this |-> this, other |-> other,
                allowDiagonal |-> allowDiagonal, mapId1 |-> mapId1, mapId2 |-> mapId2,
                ret |-> isAdjacentTo(this, other, allowDiagonal),
                util |-> arePositionsAdjacent([mapId |-> mapId1, position |-> this],
                                              [mapId |-> mapId2, position |-> other],
                                              allowDiagonal)]
    /\ UNCHANGED <<heap, maps, unitPositions, variant, zInputs, shared, calls>>

NextPure ==
  \/ RoundTrip
  \/ IsAdjacentTo

SpecPure == Init /\ [][NextPure]_vars

(* ------------------------- vocabulary of the claims -------------------- *)

WorldMaps == {maps[i] : i \in DOMAIN maps}

\* The cells of a map, as <<x, y>>.
CellsOf(m) == (0 .. m.width - 1) \X (0 .. m.height - 1)

\* The cell a coordinate resolves to (through wrap when wrapEdges is on).
Resolve(m, x, y) ==
  <<getWrappedCoordinate(m, x, m.width), getWrappedCoordinate(m, y, m.height)>>

OccupantOf(m, c) == m.cells[c[2]][c[1]].occupiedBy

Positions == [x : Coords, y : YCoords, z : zInputs]

SameWorld(r) == r.heap = heap /\ r.maps = maps /\ r.unitPositions = unitPositions

\* The cells, over the maps of world w, whose occupant is unitId.
CellsHeldBy(w, unitId) ==
  {<<w.maps[i], c>> : i \in DOMAIN w.maps, c \in Coords \X YCoords} \cap
  {rc \in (MapRefs \X (Coords \X YCoords)) :
     /\ rc[2] \in CellsOf(w.heap[rc[1]])
     /\ OccupantOf(w.heap[rc[1]], rc[2]) = Some(unitId)}

(* -------------------------------- claims ------------------------------- *)

\* C1: every tracked entity's map is in the world, and the cell its tracked
\* position resolves to has that entity as its occupant.
C1_TrackedUnitOccupiesItsCell ==
  \A u \in DOMAIN unitPositions :
    LET p == unitPositions[u]
        map == getMap(World, p.mapId)
    IN /\ map # None
       /\ getUnitAt(heap[map[1]], p.position.x, p.position.y) = Some(u)

\* C2: every occupied cell of every map in the world holds an id whose
\* tracked position names that map and resolves to that cell.
C2_OccupantIsTracked ==
  \A ref \in WorldMaps : \A c \in CellsOf(heap[ref]) :
    LET occ == OccupantOf(heap[ref], c)
    IN occ # None =>
         /\ occ[1] \in DOMAIN unitPositions
         /\ unitPositions[occ[1]].mapId = heap[ref].name
         /\ Resolve(heap[ref], unitPositions[occ[1]].position.x,
                    unitPositions[occ[1]].position.y) = c

\* C3: no two distinct tracked entities have tracked positions that resolve
\* to the same cell of the same map.
C3_SingleOccupancy ==
  \A u \in DOMAIN unitPositions : \A v \in DOMAIN unitPositions \ {u} :
    LET p == unitPositions[u]
        q == unitPositions[v]
        map == getMap(World, p.mapId)
    IN (p.mapId = q.mapId /\ map # None) =>
         Resolve(heap[map[1]], p.position.x, p.position.y)
           # Resolve(heap[map[1]], q.position.x, q.position.y)

\* C4: in every reachable state, a successful setUnitPosition(id, mapId, p)
\* for a tracked id leaves the old cell without occupant, the target cell
\* with occupant id, id tracked at {mapId, p}, and id on exactly one cell.
C4_SetUnitPositionRelocates ==
  \A id \in DOMAIN unitPositions : \A mapId \in MapNames : \A p \in Positions :
    LET r == setUnitPosition(World, id, mapId, p)
        old == unitPositions[id]
        oldMap == getMap(World, old.mapId)
        newMap == getMap(World, mapId)
    IN r.ret =>
         /\ oldMap # None =>
              getUnitAt(r.heap[oldMap[1]], old.position.x, old.position.y) = None
         /\ getUnitAt(r.heap[newMap[1]], p.x, p.y) = Some(id)
         /\ r.unitPositions[id] = [mapId |-> mapId, position |-> p]
         /\ Cardinality(CellsHeldBy(r, id)) = 1

\* C5: in every reachable state, a moveUnit(id, x, y) that returns false
\* leaves every cell of every map and every tracked position as it was.
C5_MoveUnitFailsAtomically ==
  \A id \in UnitIds : \A x \in Coords : \A y \in YCoords :
    LET r == moveUnit(World, id, x, y) IN ~r.ret => SameWorld(r)

\* C5, witness: the last call was a moveUnit onto an occupied cell, and a tracked unit
\* still occupies its cell.
C5_Witness ==
  /\ last.op = "moveUnit" /\ ~last.ret /\ last.path = "occupied"
  /\ \E u \in DOMAIN unitPositions :
       getUnitAt(heap[getMap(World, unitPositions[u].mapId)[1]],
                 unitPositions[u].position.x, unitPositions[u].position.y) = Some(u)

\* C6 as stated: a moveUnitToMap(id, newMapId, x, y) that returns false
\* leaves the destination cell not occupied by id.
C6_FailedMoveLeavesDestinationFreeOfId ==
  \A id \in UnitIds : \A mapId \in MapNames : \A x \in Coords : \A y \in YCoords :
    LET r == moveUnitToMap(World, id, mapId, x, y)
        newMap == getMap(World, mapId)
    IN (~r.ret /\ newMap # None) => getUnitAt(r.heap[newMap[1]], x, y) # Some(id)

\* C6 amended: a moveUnitToMap that returns false leaves every cell of every
\* map (the destination cell and the entity's own cell among them) and every
\* tracked position as it was.
C6_MoveUnitToMapFailsAtomically ==
  \A id \in UnitIds : \A mapId \in MapNames : \A x \in Coords : \A y \in YCoords :
    LET r == moveUnitToMap(World, id, mapId, x, y) IN ~r.ret => SameWorld(r)

\* C6, witness: the last call was a moveUnitToMap onto an occupied cell, with units
\* tracked on two maps.
C6_Witness ==
  /\ last.op = "moveUnitToMap" /\ ~last.ret /\ last.path = "occupied"
  /\ \E u \in DOMAIN unitPositions : \E v \in DOMAIN unitPositions :
       unitPositions[u].mapId # unitPositions[v].mapId

\* C7: setUnitPosition(id, mapId, p) returns false and changes nothing when
\* mapId names no map in the world or the target cell is out of bounds,
\* blocked, or occupied by another entity.
C7_SetUnitPositionRejects ==
  \A id \in UnitIds : \A mapId \in MapNames : \A p \in Positions :
    LET r == setUnitPosition(World, id, mapId, p)
        map == getMap(World, mapId)
        cell == getCell(heap[map[1]], p.x, p.y)
    IN (\/ map = None
        \/ cell = None
        \/ cell[1].properties.movementBlocked
        \/ (cell[1].occupiedBy # None /\ cell[1].occupiedBy # Some(id)))
       => (~r.ret /\ SameWorld(r))

\* C8: removeMap(name) of a map in the world returns true, takes that map
\* out, deletes exactly the tracked positions on it and leaves every other
\* tracked position and every cell as it was; of a name not in the world it
\* returns false and changes nothing.
C8_RemoveMapCascades ==
  \A name \in MapNames :
    LET r == removeMap(World, name)
        index == findIndex(World, name)
    IN IF index = 0 THEN ~r.ret /\ SameWorld(r)
       ELSE /\ r.ret
            /\ getMap(r, name) = None
            /\ Len(r.maps) = Len(maps) - 1
            /\ {r.maps[i] : i \in DOMAIN r.maps} = WorldMaps \ {maps[index]}
            /\ DOMAIN r.unitPositions =
                 {u \in DOMAIN unitPositions : unitPositions[u].mapId # name}
            /\ \A u \in DOMAIN r.unitPositions : r.unitPositions[u] = unitPositions[u]
            /\ r.heap = heap

\* C8, witness: the last call removed a map carrying a unit (its cell keeps the
\* occupant, its tracked position is gone) while another unit stays tracked.
C8_Witness ==
  /\ last.op = "removeMap" /\ last.ret
  /\ unitPositions # NoPositions
  /\ \E ref \in MapRefs \ WorldMaps : \E c \in CellsOf(heap[ref]) :
       /\ OccupantOf(heap[ref], c) # None
       /\ OccupantOf(heap[ref], c)[1] \notin DOMAIN unitPositions

\* C9: the names of the maps in the world are pairwise distinct; addMap of a
\* name already in the world returns false and changes nothing, and any
\* other addMap returns true and appends the map.
C9_MapNamesDistinct ==
  /\ \A i \in DOMAIN maps : \A j \in DOMAIN maps :
       heap[maps[i]].name = heap[maps[j]].name => i = j
  /\ \A ref \in MapRefs :
       LET r == addMap(World, ref)
       IN IF getMap(World, heap[ref].name) # None THEN ~r.ret /\ SameWorld(r)
          ELSE /\ r.ret
               /\ r.maps = Append(maps, ref)
               /\ r.unitPositions = unitPositions
               /\ r.heap = heap

\* C9, witness: the last call was an addMap rejected for a Map object that is not in
\* the world and whose name is.
C9_Witness ==
  /\ last.op = "addMap" /\ ~last.ret
  /\ \E ref \in MapRefs \ WorldMaps : getMap(World, heap[ref].name) # None

\* C10: removeUnit(id) of an untracked id returns false and changes nothing;
\* of a tracked id it returns true, clears the occupant of the entity's cell,
\* deletes its tracked position, and the cell can take a unit again unless
\* its terrain is blocked.
C10_RemoveUnitVacates ==
  \A id \in UnitIds :
    LET r == removeUnit(World, id)
    IN IF id \notin DOMAIN unitPositions THEN ~r.ret /\ SameWorld(r)
       ELSE LET p == unitPositions[id]
                map == getMap(World, p.mapId)
                cell == getCell(r.heap[map[1]], p.position.x, p.position.y)
            IN /\ r.ret
               /\ getUnitPosition(r, id) = None
               /\ map # None
               /\ cell # None
               /\ cell[1].occupiedBy = None
               /\ ~cell[1].properties.movementBlocked =>
                    canPlaceUnitAt(r.heap[map[1]], p.position.x, p.position.y)

\* C10, witness: the last call removed a unit, and a cell in the world can take it again.
C10_Witness ==
  /\ last.op = "removeUnit" /\ last.ret
  /\ \E u \in UnitIds \ DOMAIN unitPositions : \E ref \in WorldMaps :
       \E c \in CellsOf(heap[ref]) : canPlaceUnitAt(heap[ref], c[1], c[2])

\* C11: in every reachable state, a successful moveUnit(id, x, y) leaves the
\* entity's old cell without occupant, the cell (x, y) of the same map with
\* occupant id, and id tracked on the same map at (x, y) with the z it had.
C11_MoveUnitRelocates ==
  \A id \in DOMAIN unitPositions : \A x \in Coords : \A y \in YCoords :
    LET r == moveUnit(World, id, x, y)
        old == unitPositions[id]
        map == getMap(World, old.mapId)
    IN r.ret =>
         /\ getUnitAt(r.heap[map[1]], old.position.x, old.position.y) = None
         /\ getUnitAt(r.heap[map[1]], x, y) = Some(id)
         /\ r.unitPositions[id].mapId = old.mapId
         /\ r.unitPositions[id].position.x = x
         /\ r.unitPositions[id].position.y = y
         /\ r.unitPositions[id].position.z = old.position.z

\* C12: in every reachable state, a successful moveUnitToMap(id, newMapId,
\* x, y) leaves the entity's old cell on its old map without occupant, the
\* cell (x, y) of newMapId with occupant id, and id tracked at
\* {newMapId, x, y}, also when newMapId is the map the entity is on.
C12_MoveUnitToMapRelocates ==
  \A id \in DOMAIN unitPositions : \A mapId \in MapNames :
    \A x \in Coords : \A y \in YCoords :
      LET r == moveUnitToMap(World, id, mapId, x, y)
          old == unitPositions[id]
          oldMap == getMap(World, old.mapId)
          newMap == getMap(World, mapId)
      IN r.ret =>
           /\ oldMap # None =>
                getUnitAt(r.heap[oldMap[1]], old.position.x, old.position.y) = None
           /\ getUnitAt(r.heap[newMap[1]], x, y) = Some(id)
           /\ r.unitPositions[id].mapId = mapId
           /\ r.unitPositions[id].position.x = x
           /\ r.unitPositions[id].position.y = y

\* C13: a World lookup never raises: getMap(name) is absent iff no map of
\* that name is in the world, getUnitPosition(id) is absent iff id is
\* untracked, and neither ends with a raised error.
C13_LookupsReturnAbsent ==
  /\ \A name \in MapNames :
       /\ getMapSignal(World, name) # "raised"
       /\ getMapSignal(World, name) = "absent"
            <=> ~\E i \in DOMAIN maps : heap[maps[i]].name = name
       /\ removeMap(World, name).ret => getMapSignal(removeMap(World, name), name) = "absent"
  /\ \A id \in UnitIds :
       /\ getUnitPositionSignal(World, id) # "raised"
       /\ getUnitPositionSignal(World, id) = "absent" <=> id \notin DOMAIN unitPositions

Wide == -3 .. 4

\* ((c mod max) + max) mod max, with the mathematical mod.
MathWrap(c, max) == ((c % max) + max) % max

\* C15: isWalkable is false for every cell whose properties have
\* impassable = true, whatever its movement cost and occupant.
C15_ImpassableIsNotWalkable ==
  \A ref \in DOMAIN heap : \A x \in Wide : \A y \in Wide :
    LET cell == getCell(heap[ref], x, y)
    IN (/\ cell # None
        /\ "impassable" \in DOMAIN cell[1].properties
        /\ cell[1].properties.impassable)
       => ~isWalkable(heap[ref], x, y)

\* C16: on a map without wrapEdges, after any setTerrain, placeUnit,
\* removeUnit and successful resize, getCell(x, y) is non-null iff
\* 0 <= x < width and 0 <= y < height.
C16_CellIffInRange ==
  \A ref \in DOMAIN heap :
    ~heap[ref].config.wrapEdges =>
      \A x \in Wide : \A y \in Wide :
        getCell(heap[ref], x, y) # None
          <=> (0 <= x /\ x < heap[ref].width /\ 0 <= y /\ y < heap[ref].height)

\* C16, witness: a successful resize has left a map without wrapEdges
\* narrower than it was built, with a unit on it.
C16_Witness ==
  /\ last.op = "resize" /\ last.ret
  /\ \E ref \in DOMAIN heap :
       /\ ~heap[ref].config.wrapEdges
       /\ heap[ref].width = 1
       /\ \E c \in CellsOf(heap[ref]) : OccupantOf(heap[ref], c) # None

\* C17: on a map with wrapEdges, at every integer (x, y): getCell is
\* non-null and is the cell of (x + width, y + height); setTerrain,
\* placeUnit, removeUnit and getUnitAt act on the cell at
\* (((x mod width) + width) mod width, ((y mod height) + height) mod height).
C17_WrapResolves ==
  \A ref \in DOMAIN heap :
    LET m == heap[ref]
    IN m.config.wrapEdges =>
         \A x \in Wide : \A y \in Wide :
           LET wx == MathWrap(x, m.width)
               wy == MathWrap(y, m.height)
           IN /\ getCell(m, x, y) # None
              /\ Resolve(m, x, y) = Resolve(m, x + m.width, y + m.height)
              /\ getCell(m, x, y) = getCell(m, x + m.width, y + m.height)
              /\ Resolve(m, x, y) = <<wx, wy>>
              /\ getCell(m, x, y) = Some(m.cells[wy][wx])
              /\ getUnitAt(m, x, y) = m.cells[wy][wx].occupiedBy
              /\ mapRemoveUnit(m, x, y) =
                   [ok |-> TRUE, map |-> [m EXCEPT !.cells[wy][wx].occupiedBy = None]]
              /\ \A id \in UnitIds :
                   placeUnit(m, id, x, y) =
                     IF canPlaceUnitAt(m, wx, wy)
                     THEN [ok |-> TRUE,
                           map |-> [m EXCEPT !.cells[wy][wx].occupiedBy = Some(id)]]
                     ELSE [ok |-> FALSE, map |-> m]
              /\ \A terrain \in Terrains : \A properties \in Overrides :
                   LET r == setTerrainWith(m, x, y, terrain, properties)
                   IN /\ r.ok
                      /\ r.map.cells[wy][wx].terrain = terrain
                      /\ r.map.cells[wy][wx].occupiedBy = m.cells[wy][wx].occupiedBy
                      /\ \A c \in CellsOf(m) \ {<<wx, wy>>} :
                           r.map.cells[c[2]][c[1]] = m.cells[c[2]][c[1]]

\* C17, witness: a placeUnit has succeeded on a map with wrapEdges and the
\* unit is found at a negative coordinate, one width and height away.
C17_Witness ==
  /\ last.op = "placeUnit" /\ last.ret
  /\ \E ref \in DOMAIN heap :
       /\ heap[ref].config.wrapEdges
       /\ heap[ref].width = 2
       /\ getUnitAt(heap[ref], -1, -1) # None
       /\ getUnitAt(heap[ref], -1, -1) = getUnitAt(heap[ref], 1, 0)

\* C18: Map.removeUnit(x, y) at a coordinate that resolves to a cell returns
\* true twice in a row, leaves the cell without occupant, and the second
\* call changes nothing; at any other coordinate it returns false and
\* changes nothing.
C18_RemoveUnitIdempotent ==
  \A ref \in DOMAIN heap : \A x \in Wide : \A y \in Wide :
    LET first == mapRemoveUnit(heap[ref], x, y)
        second == mapRemoveUnit(first.map, x, y)
    IN IF getCell(heap[ref], x, y) # None
       THEN /\ first.ok /\ second.ok
            /\ getUnitAt(first.map, x, y) = None
            /\ getUnitAt(second.map, x, y) = None
            /\ second.map = first.map
       ELSE ~first.ok /\ first.map = heap[ref]

\* C18, witness: a removeUnit has returned true, a cell of the map is still
\* occupied and some coordinate resolves to no cell.
C18_Witness ==
  /\ last.op = "removeUnit" /\ last.ret
  /\ \E ref \in DOMAIN heap :
       /\ \E c \in CellsOf(heap[ref]) : OccupantOf(heap[ref], c) # None
       /\ \E x \in Wide : getCell(heap[ref], x, 0) = None

\* C19: Map.placeUnit(id, x, y) returns false and changes nothing unless
\* canPlaceUnitAt(x, y); when it returns true, for every id, getUnitAt(x, y)
\* is id and isWalkable and canPlaceUnitAt are false for as long as the
\* occupant stays, and after removeUnit(x, y) the cell has no occupant and
\* is walkable.
C19_PlaceUnitOccupies ==
  \A ref \in DOMAIN heap : \A x \in Wide : \A y \in Wide :
    /\ getUnitAt(heap[ref], x, y) # None =>
         ~isWalkable(heap[ref], x, y) /\ ~canPlaceUnitAt(heap[ref], x, y)
    /\ \A id \in UnitIds :
         LET r == placeUnit(heap[ref], id, x, y)
             removed == mapRemoveUnit(r.map, x, y)
         IN IF ~canPlaceUnitAt(heap[ref], x, y) THEN ~r.ok /\ r.map = heap[ref]
            ELSE /\ r.ok
                 /\ getUnitAt(r.map, x, y) = Some(id)
                 /\ ~isWalkable(r.map, x, y)
                 /\ ~canPlaceUnitAt(r.map, x, y)
                 /\ removed.ok
                 /\ getUnitAt(removed.map, x, y) = None
                 /\ isWalkable(removed.map, x, y)

\* C20: resize(newW, newH) with newW <= 0 or newH <= 0 raises and leaves
\* width, height and every cell of the map as they were.
C20_InvalidResizeRaises ==
  \A ref \in DOMAIN heap : \A newWidth \in Sizes : \A newHeight \in Sizes :
    LET r == resize(heap[ref], newWidth, newHeight)
    IN (newWidth <= 0 \/ newHeight <= 0) => (r.raised /\ r.map = heap[ref])

\* C20, witness: a resize has raised on a map that carries a unit and a
\* cell of changed terrain.
C20_Witness ==
  /\ last.op = "resize" /\ ~last.ret /\ last.path = "raised"
  /\ \E ref \in DOMAIN heap :
       /\ \E c \in CellsOf(heap[ref]) : OccupantOf(heap[ref], c) # None
       /\ \E c \in CellsOf(heap[ref]) : heap[ref].cells[c[2]][c[1]].terrain = "water"

\* Dimensions a resize is checked with.
ValidSizes == 1 .. 3

\* C21: a successful resize(newW, newH) leaves exactly newH rows of newW
\* cells; the cells with x < min(oldW, newW) and y < min(oldH, newH) are
\* as before and every other cell is a default cell; enlarging after a
\* shrink brings no dropped cell back.
C21_ResizeRebuildsGrid ==
  \A ref \in DOMAIN heap : \A newW \in ValidSizes : \A newH \in ValidSizes :
    LET m == heap[ref]
        r == resize(m, newW, newH)
        back == resize(r.map, m.width, m.height)
    IN /\ ~r.raised
       /\ r.map.width = newW /\ r.map.height = newH
       /\ DOMAIN r.map.cells = 0 .. newH - 1
       /\ \A y \in 0 .. newH - 1 :
            /\ DOMAIN r.map.cells[y] = 0 .. newW - 1
            /\ \A x \in 0 .. newW - 1 :
                 r.map.cells[y][x] = IF x < m.width /\ y < m.height THEN m.cells[y][x]
                                     ELSE createDefaultCell(m.config)
       /\ r.map.name = m.name /\ r.map.config = m.config
       /\ \A c \in CellsOf(m) \ CellsOf(r.map) :
            back.map.cells[c[2]][c[1]] = createDefaultCell(m.config)

\* C21, witness: after a successful resize the 2 x 2 map, built with water at
\* (1, 1), has a default cell there and a unit elsewhere.
C21_Witness ==
  /\ last.op = "resize" /\ last.ret
  /\ \E ref \in DOMAIN heap :
       /\ heap[ref].width = 2 /\ heap[ref].height = 2
       /\ heap[ref].cells[1][1] = createDefaultCell(heap[ref].config)
       /\ \E c \in CellsOf(heap[ref]) : OccupantOf(heap[ref], c) # None

\* C22: clone(name?) returns a map of the same width, height and
\* configuration whose every cell has the source cell's terrain, properties
\* and occupant, holding no cell object of the source; once a map has a
\* clone, a setTerrain, placeUnit, removeUnit or resize on either leaves
\* every cell of the other as it was.
C22_CloneSharesNothing ==
  /\ \A ref \in DOMAIN heap : \A name \in {None, Some(""), Some("Copy")} :
       LET m == heap[ref]
           c == clone(m, name)
       IN /\ c.map.width = m.width /\ c.map.height = m.height
          /\ c.map.config = m.config
          /\ DOMAIN c.map.cells = DOMAIN m.cells
          /\ \A xy \in CellsOf(m) :
               LET new == c.map.cells[xy[2]][xy[1]]
                   old == m.cells[xy[2]][xy[1]]
               IN /\ new.terrain = old.terrain
                  /\ new.properties = old.properties
                  /\ new.occupiedBy = old.occupiedBy
          /\ c.shared = {}
  /\ \A ref \in DOMAIN heap : \A other \in DOMAIN heap \ {ref} :
       \A x \in Coords : \A y \in MapYCoords :
         /\ removeUnitOn(Objects, ref, x, y).heap[other] = heap[other]
         /\ \A id \in UnitIds :
              placeUnitOn(Objects, ref, id, x, y).heap[other] = heap[other]
         /\ \A terrain \in Terrains : \A properties \in Overrides :
              setTerrainOn(Objects, ref, x, y, terrain, properties).heap[other] = heap[other]
         /\ \A newW \in Sizes : \A newH \in Sizes :
              resizeOn(Objects, ref, newW, newH).heap[other] = heap[other]

\* C22, witness: a map with a unit on it was cloned, and a placeUnit on one
\* of the two has since made them differ.
C22_Witness ==
  /\ last.op = "placeUnit" /\ last.ret
  /\ \E ref \in DOMAIN heap : \E other \in DOMAIN heap \ {ref} :
       /\ heap[ref].cells # heap[other].cells
       /\ \E xy \in CellsOf(heap[ref]) \cap CellsOf(heap[other]) :
            /\ OccupantOf(heap[ref], xy) # None
            /\ OccupantOf(heap[ref], xy) = OccupantOf(heap[other], xy)

Max(a, b) == IF a >= b THEN a ELSE b

\* C27: for every Position p with integer coordinates, with or without z,
\* Position.fromString(p.toString()) does not raise and equals p.
C27_StringRoundTrip ==
  last.op = "fromString" =>
    /\ ~last.ret.raised
    /\ ~last.ret.nan
    /\ equals(last.ret.position, last.this)
    /\ last.ret.position.z = None <=> last.this.z = None

\* C27, witness: a position with a negative two-digit x and a z was printed
\* and read back.
C27_Witness ==
  /\ last.op = "fromString"
  /\ last.this.x < -9 /\ last.this.z # None
  /\ Len(last.str) > 9

\* C28: for integer coordinates isAdjacentTo ignores z and is true iff the
\* Chebyshev distance in (x, y) is 1 (allowDiagonal) or the Manhattan
\* distance is 1 (otherwise); arePositionsAdjacent gives the same value for
\* two records of one map and false for records of different maps.
C28_AdjacencyByDistance ==
  last.op = "isAdjacentTo" =>
    LET dx == Abs(last.this.x - last.other.x)
        dy == Abs(last.this.y - last.other.y)
        expected == IF last.allowDiagonal THEN Max(dx, dy) = 1 ELSE dx + dy = 1
    IN /\ last.ret = expected
       /\ (dx = 0 /\ dy = 0) => ~last.ret
       /\ last.ret = isAdjacentTo([last.this EXCEPT !.z = None],
                                  [last.other EXCEPT !.z = None], last.allowDiagonal)
       /\ last.util = IF last.mapId1 = last.mapId2 THEN last.ret ELSE FALSE

\* C28, witness: two positions of the same (x, y) and different z were
\* compared, on one map.
C28_Witness ==
  /\ last.op = "isAdjacentTo"
  /\ last.this.x = last.other.x /\ last.this.y = last.other.y
  /\ last.this.z # last.other.z
  /\ last.mapId1 = last.mapId2
  /\ ~last.ret /\ ~last.util

\* The records of a list that lie at (mapId, x, y), in list order.
RecordsAt(positions, mapId, x, y) ==
  SelectSeq(positions, LAMBDA pos :
    pos.mapId = mapId /\ pos.position.x = x /\ pos.position.y = y)

\* C23: for every input list and every map id string (ids containing ':'
\* or ',' included), findCollisions returns exactly one group for each
\* distinct (mapId, x, y) held by two or more records, carrying that mapId,
\* x, y and all of those records, and no group for a coordinate held by a
\* single record.
C23_CollisionGroups ==
  last.op = "findCollisions" =>
    LET positions == last.positions
        groups == last.ret
        Matches(g, pos) ==
          /\ g.mapId = pos.mapId
          /\ g.x = Some(pos.position.x)
          /\ g.y = Some(pos.position.y)
          /\ g.positions = RecordsAt(positions, pos.mapId, pos.position.x, pos.position.y)
    IN /\ \A i \in DOMAIN positions :
            Len(RecordsAt(positions, positions[i].mapId, positions[i].position.x,
                          positions[i].position.y)) >= 2
              => Cardinality({k \in DOMAIN groups : Matches(groups[k], positions[i])}) = 1
       /\ \A k \in DOMAIN groups :
            /\ Len(groups[k].positions) >= 2
            /\ \E i \in DOMAIN positions : Matches(groups[k], positions[i])

\* The positions stepTowards is asked about where no map bounds them.
Open == 0 .. 2

\* C24: for a map that is in the world and integer positions from and to
\* inside its bounds, stepTowards returns from when the two share (x, y);
\* otherwise a position one unit from `from` on one axis, x (towards to)
\* when |dx| >= |dy| and y (towards to) when |dx| < |dy|, inside the bounds
\* and with from's z.
C24_StepTowardsOnMap ==
  \A name \in MapNames :
    findIndex(World, name) # 0 =>
      LET m == heap[maps[findIndex(World, name)]]
      IN \A f \in CellsOf(m) : \A t \in CellsOf(m) : \A z \in ZValues :
           LET from == Position(f[1], f[2], z)
               r == stepTowards(World, name, from, Position(t[1], t[2], None))
               dx == t[1] - f[1]
               dy == t[2] - f[2]
           IN /\ r.z = z
              /\ <<r.x, r.y>> \in CellsOf(m)
              /\ IF f = t THEN r = from
                 ELSE IF Abs(dx) >= Abs(dy)
                 THEN /\ r.y = from.y
                      /\ Abs(r.x - from.x) = 1
                      /\ Abs(t[1] - r.x) = Abs(dx) - 1
                 ELSE /\ r.x = from.x
                      /\ Abs(r.y - from.y) = 1
                      /\ Abs(t[2] - r.y) = Abs(dy) - 1

\* C24, witness: on the 2 x 2 map a step from (0, 0, 1) towards (1, 1) goes
\* along x, and a step towards (0, 1) goes along y.
C24_Witness ==
  /\ findIndex(World, "A") # 0
  /\ heap[maps[findIndex(World, "A")]].height = 2
  /\ stepTowards(World, "A", Position(0, 0, Some(1)), Position(1, 1, None))
       = Position(1, 0, Some(1))
  /\ stepTowards(World, "A", Position(0, 0, Some(1)), Position(0, 1, None))
       = Position(0, 1, Some(1))

\* C25: when mapId names no map in the world, for every from and to with
\* non-negative coordinates stepTowards returns the x and y of from, and
\* from's z.
C25_StepTowardsWithoutMap ==
  \A name \in MapNames :
    findIndex(World, name) = 0 =>
      \A fx \in Open : \A fy \in Open : \A tx \in Open : \A ty \in Open : \A z \in ZValues :
        LET r == stepTowards(World, name, Position(fx, fy, z), Position(tx, ty, None))
        IN r.x = fx /\ r.y = fy /\ r.z = z

\* The eight neighbours of (x, y).
Neighbours(x, y) ==
  {<<x + dx, y + dy>> : dx \in {-1, 0, 1}, dy \in {-1, 0, 1}} \ {<<x, y>>}

\* C26: getAdjacentPositions returns exactly the neighbours (the 4 cardinal
\* ones, or all 8 when allowDiagonal) for which isValidPosition is true,
\* which is the non-wrapped bounds check also for maps with wrapEdges; when
\* no map of that name is in the world it returns an empty list and
\* isValidPosition returns false; neither raises, whether World.getMap
\* returns undefined or raises.
C26_AdjacentPositionsInBounds ==
  \A name \in MapNames : \A x \in Coords : \A y \in Coords :
    \A allowDiagonal \in BOOLEAN :
      LET w == World
          adjacent == getAdjacentPositions(w, name, x, y, allowDiagonal)
          valid == isValidPosition(w, name, x, y)
          wanted == {n \in Neighbours(x, y) :
                       /\ allowDiagonal \/ n[1] = x \/ n[2] = y
                       /\ isValidPosition(w, name, n[1], n[2]).value}
      IN /\ adjacent.kind = "value" /\ valid.kind = "value"
         /\ {adjacent.value[i] : i \in DOMAIN adjacent.value}
              = {Position(n[1], n[2], None) : n \in wanted}
         /\ Len(adjacent.value) = Cardinality(wanted)
         /\ IF findIndex(World, name) = 0
            THEN adjacent.value = <<>> /\ ~valid.value
            ELSE valid.value <=> <<x, y>> \in CellsOf(heap[maps[findIndex(World, name)]])

\* C26, witness: in the World whose getMap raises, the map with wrapEdges
\* is there, (0, 0) on it has the one neighbour (1, 0), and no map named "C"
\* is there to ask about.
C26_Witness ==
  /\ variant = "throws"
  /\ findIndex(World, "B") # 0
  /\ heap[maps[findIndex(World, "B")]].config.wrapEdges
  /\ getAdjacentPositions(World, "B", 0, 0, TRUE).value = <<Position(1, 0, None)>>
  /\ ~isValidPosition(World, "B", -1, 0).value
  /\ findIndex(World, "C") = 0
  /\ getAdjacentPositions(World, "C", 0, 0, TRUE).value = <<>>

\* Terrain kinds the merge is checked with: two of the table, one of them
\* with a second default field, and one the table does not know.
Kinds == {"water", "forest", "lava"}

\* Properties arguments the merge is checked with.
Merged ==
  {None,
   Some([impassable |-> TRUE]),
   Some([movementCost |-> 25, visibilityModifier |-> 5]),
   Some([movementCost |-> 0, movementBlocked |-> FALSE])}

\* C29: setTerrain(x, y, kind, override) on a coordinate that resolves to a
\* cell returns true, replaces that cell's terrain and properties, keeps its
\* occupant and leaves every other cell, the dimensions, the name and the
\* config as they were; on an out-of-bounds coordinate of a map without
\* wrapEdges it returns false and changes nothing.
C29_SetTerrainFrame ==
  \A ref \in DOMAIN heap : \A x \in Coords : \A y \in MapYCoords :
    \A terrain \in {"water", "lava"} : \A properties \in Overrides :
      LET m == heap[ref]
          r == setTerrainWith(m, x, y, terrain, properties)
      IN IF getCell(m, x, y) # None
         THEN LET at == Resolve(m, x, y)
              IN /\ r.ok
                 /\ getCell(r.map, x, y)[1].terrain = terrain
                 /\ getUnitAt(r.map, x, y) = getUnitAt(m, x, y)
                 /\ OccupantOf(r.map, at) = OccupantOf(m, at)
                 /\ \A c \in CellsOf(m) \ {at} : cellAt(r.map, c[1], c[2]) = cellAt(m, c[1], c[2])
                 /\ CellsOf(r.map) = CellsOf(m)
                 /\ r.map.width = m.width /\ r.map.height = m.height
                 /\ r.map.name = m.name /\ r.map.config = m.config
         ELSE /\ ~m.config.wrapEdges
              /\ ~r.ok
              /\ r.map = m

\* C29, witness: setTerrain has just returned true on a map where a cell
\* of water holds a unit (water was laid under it) and another cell is still
\* grass, and a coordinate out of bounds is there to be refused.
C29_Witness ==
  /\ last.op = "setTerrain" /\ last.ret
  /\ \E ref \in DOMAIN heap :
       /\ ~heap[ref].config.wrapEdges
       /\ getCell(heap[ref], -1, 0) = None
       /\ \E c \in CellsOf(heap[ref]) :
            /\ cellAt(heap[ref], c[1], c[2])[1].terrain = "water"
            /\ OccupantOf(heap[ref], c) = Some("u1")
       /\ \E c \in CellsOf(heap[ref]) : cellAt(heap[ref], c[1], c[2])[1].terrain = "grass"

\* C30: after setTerrain(x, y, kind, override) the cell's properties are the
\* defaults of kind (those of grass when the kind is not in the table) with
\* every field of override written over them; setTerrain(x, y, 'water')
\* without override makes getMovementCost(x, y) 2.0, and a movementCost in
\* the override is the movementCost of the cell.
C30_DefaultsThenOverride ==
  \A ref \in DOMAIN heap : \A x \in Coords : \A y \in YCoords :
    \A terrain \in Kinds : \A properties \in Merged :
      LET r == setTerrainWith(heap[ref], x, y, terrain, properties)
          known == {"grass", "water", "mountain", "forest", "desert", "road",
                    "plains", "swamp", "snow", "sand"}
          defaults == getDefaultTerrainProperties(IF terrain \in known THEN terrain
                                                  ELSE "grass")
          override == IF properties = None THEN <<>> ELSE properties[1]
      IN r.ok =>
           LET props == getTerrainProperties(r.map, x, y)[1]
           IN /\ DOMAIN props = DOMAIN defaults \cup DOMAIN override
              /\ \A k \in DOMAIN override : props[k] = override[k]
              /\ \A k \in DOMAIN defaults \ DOMAIN override : props[k] = defaults[k]
              /\ (terrain = "water" /\ properties = None)
                   => /\ getMovementCost(r.map, x, y) = Some(20)
                      /\ props.movementBlocked
              /\ (terrain = "lava" /\ properties = None)
                   => getMovementCost(r.map, x, y) = Some(10)

\* C30, witness: setTerrain has just laid water with { impassable: true },
\* so a cell has water's cost and block and the override's field.
C30_Witness ==
  /\ last.op = "setTerrain" /\ last.ret
  /\ \E ref \in DOMAIN heap : \E c \in CellsOf(heap[ref]) :
       LET props == cellAt(heap[ref], c[1], c[2])[1].properties
       IN /\ cellAt(heap[ref], c[1], c[2])[1].terrain = "water"
          /\ "impassable" \in DOMAIN props /\ props.impassable
          /\ props.movementCost = 20 /\ props.movementBlocked
          /\ getMovementCost(heap[ref], c[1], c[2]) = Some(20)

\* C31: in every reachable Map state and for every coordinate (x, y),
\* canPlaceUnitAt(x, y) returns what isWalkable(x, y) returns.
C31_PlaceableIffWalkable ==
  \A ref \in DOMAIN heap : \A x \in Wide : \A y \in Wide :
    canPlaceUnitAt(heap[ref], x, y) = isWalkable(heap[ref], x, y)

\* C31, witness: one map has a free cell where both are true, a cell of
\* water and a cell with a unit where both are false.
C31_Witness ==
  \E ref \in DOMAIN heap : \E free \in CellsOf(heap[ref]) :
    \E wet \in CellsOf(heap[ref]) : \E held \in CellsOf(heap[ref]) :
      LET m == heap[ref]
      IN /\ canPlaceUnitAt(m, free[1], free[2]) /\ isWalkable(m, free[1], free[2])
         /\ cellAt(m, wet[1], wet[2])[1].properties.movementBlocked
         /\ ~canPlaceUnitAt(m, wet[1], wet[2]) /\ ~isWalkable(m, wet[1], wet[2])
         /\ ~cellAt(m, held[1], held[2])[1].properties.movementBlocked
         /\ OccupantOf(m, held) = Some("u1")
         /\ ~canPlaceUnitAt(m, held[1], held[2]) /\ ~isWalkable(m, held[1], held[2])

\* Ranges handed to getNearbyCells.
Ranges == 0 .. 2

\* The offsets getNearbyCells is to report around a cell.
Offsets(range, includeDiagonals) ==
  {d \in (-range .. range) \X (-range .. range) :
     /\ d # <<0, 0>>
     /\ includeDiagonals \/ Abs(d[1]) # Abs(d[2])}

\* C32: on a map without wrapEdges getNearbyCells(x, y, range,
\* includeDiagonals) returns exactly one entry for each offset (dx, dy) with
\* -range <= dx, dy <= range and (dx, dy) # (0, 0), without the offsets of
\* |dx| = |dy| when includeDiagonals is false, whose coordinate is in
\* bounds, each with the cell at that coordinate, and nothing for
\* coordinates out of bounds; for an interior cell and range 1 these are
\* the 8 surrounding cells, or the 4 orthogonal ones.
C32_NearbyCellsInBounds ==
  \A ref \in DOMAIN heap :
    ~heap[ref].config.wrapEdges =>
      \A x \in Coords : \A y \in Coords : \A range \in Ranges :
        \A includeDiagonals \in BOOLEAN :
          LET m == heap[ref]
              nearby == getNearbyCells(m, x, y, range, includeDiagonals)
              wanted == {d \in Offsets(range, includeDiagonals) :
                           <<x + d[1], y + d[2]>> \in CellsOf(m)}
              interior == x > 0 /\ x < m.width - 1 /\ y > 0 /\ y < m.height - 1
          IN /\ Len(nearby) = Cardinality(wanted)
             /\ \A d \in wanted :
                  \E i \in DOMAIN nearby :
                    /\ nearby[i].x = x + d[1] /\ nearby[i].y = y + d[2]
                    /\ nearby[i].cell = cellAt(m, x + d[1], y + d[2])[1]
             /\ \A i \in DOMAIN nearby : <<nearby[i].x, nearby[i].y>> \in CellsOf(m)
             /\ (interior /\ range = 1)
                  => Len(nearby) = IF includeDiagonals THEN 8 ELSE 4

\* C32, witness: a 3 x 3 map with a unit next to its interior cell, around
\* which range 1 gives 8 and 4 entries, and around whose corner range 2
\* without diagonals gives the six cells a straight line or a knight's
\* move away.
C32_Witness ==
  \E ref \in DOMAIN heap :
    LET m == heap[ref]
    IN /\ m.width = 3 /\ m.height = 3 /\ ~m.config.wrapEdges
       /\ OccupantOf(m, <<1, 0>>) = Some("u1")
       /\ Len(getNearbyCells(m, 1, 1, 1, TRUE)) = 8
       /\ Len(getNearbyCells(m, 1, 1, 1, FALSE)) = 4
       /\ Len(getNearbyCells(m, 0, 0, 2, FALSE)) = 6
       /\ getNearbyCells(m, -1, -1, 0, TRUE) = <<>>

\* C33: a Map with a non-positive width or height is rejected at
\* construction, so every Map there is has at least one row and one column.
C33_DimensionsPositive ==
  \A ref \in DOMAIN heap :
    /\ heap[ref].width > 0
    /\ heap[ref].height > 0
    /\ CellsOf(heap[ref]) # {}

\* Lists of up to two records, on the two cells beside (0, 0) or further
\* off, of the reference entity or of another.
NearbyRecords ==
  UNION {[1 .. n -> [unitId : {"u1", "u2"}, mapId : {"A", "B"},
                     position : {Position(1, 0, None), Position(0, 1, None),
                                 Position(1, 1, None)}]] : n \in 0 .. 2}

\* C34: getAdjacentPositionsToPosition(list, world, ref, allowDiagonal)
\* returns exactly the records r of list with r.mapId = ref.mapId,
\* r.unitId # ref.unitId and r on one of the in-bounds neighbour cells (4 or
\* 8) of ref's position, for every list, also one in which several records
\* share a coordinate.
C34_AdjacentRecords ==
  \A list \in NearbyRecords : \A name \in MapNames : \A allowDiagonal \in BOOLEAN :
    \A id \in {"u1", "u3"} :
      LET ref == [unitId |-> id, mapId |-> name, position |-> Position(0, 0, None)]
          returned == getAdjacentPositionsToPosition(list, World, ref, allowDiagonal)
          cells == IF findIndex(World, name) = 0 THEN {}
                   ELSE CellsOf(heap[maps[findIndex(World, name)]])
          beside == {n \in Neighbours(0, 0) \cap cells :
                       allowDiagonal \/ n[1] = 0 \/ n[2] = 0}
      IN {returned[i] : i \in DOMAIN returned}
           = {list[i] : i \in {j \in DOMAIN list :
                                 /\ list[j].mapId = name
                                 /\ list[j].unitId # id
                                 /\ <<list[j].position.x, list[j].position.y>> \in beside}}

\* |a.x - b.x| + |a.y - b.y|
Manhattan(a, b) == Abs(a.x - b.x) + Abs(a.y - b.y)

\* C36: for a map in the world and integer positions from and to inside
\* its bounds, replacing from by stepTowards(world, mapId, from, to) again
\* and again reaches to's (x, y) after exactly |dx| + |dy| steps: after k
\* steps the Manhattan distance to `to` is the start's less k, and once it
\* is 0 the position stays.
C36_WalkReachesTarget ==
  last.op = "walk" =>
    LET away == Manhattan(last.start, last.to)
    IN /\ Manhattan(last.from, last.to) = IF calls <= away THEN away - calls ELSE 0
       /\ calls >= away => (last.from.x = last.to.x /\ last.from.y = last.to.y)
       /\ last.from.z = last.start.z
       /\ <<last.from.x, last.from.y>> \in CellsOf(heap["o1"])

\* C36, witness: a walk from one corner, with a z, to the opposite corner
\* has arrived after 5 steps and has stepped once more.
C36_Witness ==
  /\ last.op = "walk"
  /\ Manhattan(last.start, last.to) = 5
  /\ last.start.z # None
  /\ calls = 6
  /\ last.from.x = last.to.x /\ last.from.y = last.to.y

\* C37: a tracked entity cannot be placed again on the cell it occupies:
\* setUnitPosition(id, itsMap, itsPosition), moveUnit(id, itsX, itsY) and
\* moveUnitToMap(id, itsMap, itsX, itsY), also with coordinates that wrap
\* onto its own cell, return false and leave the cell occupants and the
\* tracked positions, z included, as they were.
C37_NoMoveOntoOwnCell ==
  \A id \in DOMAIN unitPositions :
    LET tracked == unitPositions[id]
        index == findIndex(World, tracked.mapId)
    IN (/\ index # 0
        /\ getUnitAt(heap[maps[index]], tracked.position.x, tracked.position.y) = Some(id))
       => \A x \in Wide : \A y \in Wide :
            LET m == heap[maps[index]]
            IN (/\ getCell(m, x, y) # None
                /\ Resolve(m, x, y) = Resolve(m, tracked.position.x, tracked.position.y))
               => \A r \in {setUnitPosition(World, id, tracked.mapId,
                                              Position(x, y, tracked.position.z)),
                             moveUnit(World, id, x, y),
                             moveUnitToMap(World, id, tracked.mapId, x, y)} :
                    /\ r.ret = FALSE
                    /\ r.heap = heap
                    /\ r.unitPositions = unitPositions

\* C38: after a successful moveUnitToMap the entity's tracked position has
\* no z, also when it had one before; after a successful moveUnit the
\* tracked z is the one it had.
C38_CrossMapMoveDropsZ ==
  \A id \in DOMAIN unitPositions : \A x \in Coords : \A y \in YCoords :
    /\ \A name \in MapNames :
         LET r == moveUnitToMap(World, id, name, x, y)
         IN r.ret = TRUE =>
              /\ r.unitPositions[id].position.z = None
              /\ r.unitPositions[id].mapId = name
    /\ LET r == moveUnit(World, id, x, y)
       IN r.ret = TRUE =>
            /\ r.unitPositions[id].position.z = unitPositions[id].position.z
            /\ r.unitPositions[id].mapId = unitPositions[id].mapId

\* C38, witness: moveUnitToMap has just succeeded on an entity set down
\* with z = 1, which is tracked without z now, and a moveUnit of it can
\* succeed from here.
C38_Witness ==
  /\ last.op = "moveUnitToMap" /\ last.ret = TRUE
  /\ None \notin zInputs
  /\ \E id \in DOMAIN unitPositions :
       /\ unitPositions[id].position.z = None
       /\ \E x \in Coords : \E y \in YCoords : moveUnit(World, id, x, y).ret = TRUE
  /\ \E id \in DOMAIN unitPositions :
       /\ unitPositions[id].position.z = Some(1)
       /\ \E x \in Coords : \E y \in YCoords : moveUnit(World, id, x, y).ret = TRUE

\* C39: for every map in the world, wrapped maps included, and after any
\* sequence of World mutators, the (id, x, y) that the map's getAllUnits()
\* reports are the (unitId, position.x, position.y) that
\* world.getUnitsOnMap(name) reports; every tracked position lies inside
\* [0, width) x [0, height) of its map.
C39_MapAndWorldAgree ==
  \A i \in DOMAIN maps :
    LET m == heap[maps[i]]
        onMap == getAllUnits(m)
        tracked == getUnitsOnMap(World, m.name)
    IN /\ {<<onMap[k].id, onMap[k].position.x, onMap[k].position.y>> : k \in DOMAIN onMap}
            = {<<u.unitId, u.position.x, u.position.y>> : u \in tracked}
       /\ \A u \in tracked : <<u.position.x, u.position.y>> \in CellsOf(m)

====
